---------------------------- MODULE Spec2Model ----------------------------
(***************************************************************************)
(* Verification model of the vkrt ray tracer (jparimaa/vkrt).              *)
(*                                                                         *)
(* The program is a single CPU thread (main.cpp) that constructs a Context *)
(* and a Raytracer and then calls Raytracer::render in a loop.  The GPU    *)
(* and the presentation engine run concurrently with it.  The model has    *)
(* one program counter, pc, for the CPU thread, and one action for every   *)
(* step of the CPU thread and of the GPU.                                  *)
(*                                                                         *)
(*   SpecFrame  the frame loop: Context::acquireNextSwapchainImage,        *)
(*              Raytracer::update, the recording in Raytracer::render,     *)
(*              Context::submitCommandBuffers, and the GPU draining the    *)
(*              queue.                                                     *)
(*   SpecInit   the Raytracer constructor from createVertexAndIndexBuffer  *)
(*              to updateTexturesDescriptorSets, for a model of one image. *)
(*   SpecConstruct  the same from createTextures on, for models of some    *)
(*              number of images and at most one primitive.                *)
(*   SpecSBT    Raytracer::createPipeline and createShaderBindingTable on  *)
(*              a device with some reported handle size and alignment.     *)
(*   SpecContext  Context::createSwapchain on a device that reports some   *)
(*              surface capabilities.                                      *)
(*   SpecUniform  the uniform block Raytracer::update writes, for a camera *)
(*              at some position in some orientation.                      *)
(*   SpecShutdown  main leaving its loop, Raytracer::~Raytracer and        *)
(*              Context::~Context.                                         *)
(*   SpecQuit   the frame loop followed by the two destructors, with the   *)
(*              GPU and the destructors scheduled fairly.                  *)
(*   SpecDescriptors  createDescriptorPool and the three descriptor set    *)
(*              allocations, for the model of some small glTF file.        *)
(*   SpecMaterial  the material info updateMaterialIndexDescriptorSet      *)
(*              writes, for the model of some small glTF file.             *)
(***************************************************************************)
EXTENDS Integers, Sequences, FiniteSets, TLC

VARIABLES
    pc,                          \* position of the CPU thread
    m_frameIndex,                \* Context::m_frameIndex
    m_imageIndex,                \* Context::m_imageIndex
    m_inFlightFences,            \* Context::m_inFlightFences: slot -> "signaled" | "unsignaled"
    m_imageAvailableSemaphores,  \* slot -> number of signal operations not yet waited for
    m_renderFinishedSemaphores,  \* slot -> number of signal operations not yet waited for
    m_commandBuffers,            \* Raytracer::m_commandBuffers: index -> "initial" | "executable"
    queue,                       \* graphics queue: submissions the GPU has not finished, oldest first
    presents,                    \* present requests the presentation engine has not executed
    frame,                       \* number of completed calls of Raytracer::render
    acquireCount,                \* number of calls of acquireNextSwapchainImage
    lastAcquire,                 \* what the latest acquireNextSwapchainImage selected
    lastSubmit,                  \* the VkSubmitInfo and fence of the latest vkQueueSubmit
    lastPresent,                 \* the VkPresentInfoKHR of the latest vkQueuePresentKHR
    failedCall,                  \* the call or check that failed and aborted the process, or "none"
    \* Raytracer construction: geometry packing
    m_model,                     \* Raytracer::m_model (the loaded Model)
    m_vertexDataSize,            \* Raytracer::m_vertexDataSize
    m_indexDataSize,             \* Raytracer::m_indexDataSize
    vertexData,                  \* createVertexAndIndexBuffer's vertexData: its size in bytes
    indices,                     \* createVertexAndIndexBuffer's indices vector: position -> value
    indexStores,                 \* every store "indices[indexCounter] = ..." made so far, in order
    vertexCopies,                \* every memcpy into vertexData made so far, in order
    packNext,                    \* the primitive the packing loop handles next (1-based)
    indexCounter,                \* local indexCounter
    indexCounterOffset,          \* local indexCounterOffset
    vertexByteOffset,            \* local vertexByteOffset
    indexByteOffset,             \* local indexByteOffset
    m_primitiveInfos,            \* Raytracer::m_primitiveInfos
    m_triangleCount,             \* Raytracer::m_triangleCount
    buffers,                     \* the VkBuffers that exist: name -> size in bytes
    \* Raytracer construction: acceleration structures
    step,                        \* position in the statement list of the function pc names
    blasInputs,                  \* createBLAS's geometries, triangleCounts and rangeInfos
    buildSizes,                  \* "blas" | "tlas" -> the VkAccelerationStructureBuildSizesInfoKHR
    sizeQueries,                 \* "blas" | "tlas" -> the arguments of the build-size query made
    structures,                  \* "blas" | "tlas" -> the acceleration structure created
    builds,                      \* "blas" | "tlas" -> the arguments of the build recorded
    gpuBuild,                    \* "blas" | "tlas" -> "none" | "pending" | "done"
    m_blasDeviceAddress,         \* Raytracer::m_blasDeviceAddress
    instanceBuffer,              \* the instance records written to m_blasGeometryInstanceBuffer
    asLog,                       \* the build steps taken so far, in order
    \* Raytracer construction: shader binding table
    physicalDeviceRayTracingPipelineProperties,  \* what the device reports
    sbtBufferAddress,            \* the device address the driver gives m_shaderBindingTableBuffer
    shaderGroupHandleSize,       \* local shaderGroupHandleSize
    shaderBindingTableSize,      \* local shaderBindingTableSize
    shaderGroupBaseAlignment,    \* local shaderGroupBaseAlignment
    shaderGroupHandlesBuffer,    \* local shaderGroupHandlesBuffer: its size in bytes
    sbtMappedSize,               \* bytes of m_shaderBindingTableMemory mapped (0: not mapped)
    sbtMemoryMapped,             \* local sbtMemoryMapped, as an offset from the start of the mapping
    sbtI,                        \* the loop variable i of lines 1514-1518
    sbtCopies,                   \* every memcpy of the loop made so far, in order
    m_rchitShaderBindingTable,   \* Raytracer::m_rchitShaderBindingTable
    m_rgenShaderBindingTable,    \* Raytracer::m_rgenShaderBindingTable
    m_rmissShaderBindingTable,   \* Raytracer::m_rmissShaderBindingTable
    m_pipeline,                  \* Raytracer::m_pipeline: "uninitialised" | "created"
    sbtHandleRequests,           \* the pipelines vkGetRayTracingShaderGroupHandlesKHR was called with
    \* Raytracer construction: staged uploads
    uploadIndex,                 \* which upload block of the function pc names is running (1-based)
    stagingBuffers,              \* the staging buffers that exist: id -> their bytes
    bufferBytes,                 \* device buffer or image -> the bytes copies have written to it
    pendingCopy,                 \* the copy command submitted and not yet executed, or NoCopy
    uploadLog,                   \* the steps of the uploads taken so far, in order
    \* Raytracer construction: textures
    images,                      \* m_model->images: width, height and data size of each image
    m_images,                    \* Raytracer::m_images: "null" | "created" per element
    m_imageViews,                \* Raytracer::m_imageViews: "null" | "created" per element
    m_imageMemory,               \* allocationSize of Raytracer::m_imageMemory (-1: not allocated)
    textureI,                    \* the loop variable i of lines 468-492
    vectorAccesses,              \* the element accesses made to m_images: index and vector size
    uncheckedFailures,           \* the calls that failed with the program going on regardless
    texturesLayoutCount,         \* descriptorCount of the textures layout binding (-1: no layout)
    texturesWrites,              \* descriptorCount of each write to m_texturesDescriptorSet
    \* Context construction, the camera, and shutdown
    capabilities,                \* what the device reports: swapchain capabilities, queue families
    m_swapchain,                 \* Context::m_swapchain: "null" | "created"
    camera,                      \* Raytracer::m_camera: what its getters return
    uniformBlock,                \* the UniformBufferInfo last copied to m_commonBufferMemory
    alive,                       \* the resources that exist
    destroyLog,                  \* every destroy or free call made so far, in order
    \* The window
    m_shouldQuit,                \* Context::m_shouldQuit
    windowShouldClose,           \* the close flag of m_window (glfwWindowShouldClose)
    \* The loaded model, the descriptor pool and the material info
    gltfModel,                   \* the tinygltf::Model the file was parsed to
    m_descriptorPool,            \* Raytracer::m_descriptorPool: its sizes and maxSets
    descriptorSets,              \* the descriptor sets allocated from the pool, in order
    materialInfo,                \* updateMaterialIndexDescriptorSet's materialInfo, as far as written
    imageBindings                \* every vkBindImageMemory call to m_imageMemory: image and offset

frameVars == <<pc, m_frameIndex, m_imageIndex, m_inFlightFences,
               m_imageAvailableSemaphores, m_renderFinishedSemaphores,
               m_commandBuffers, queue, presents, frame, acquireCount,
               lastAcquire, lastSubmit, lastPresent, failedCall>>

packVars == <<m_model, m_vertexDataSize, m_indexDataSize, vertexData, indices,
              indexStores, vertexCopies, packNext, indexCounter, indexCounterOffset,
              vertexByteOffset, indexByteOffset, m_primitiveInfos, m_triangleCount>>

asVars == <<step, blasInputs, buildSizes, sizeQueries, structures, builds, gpuBuild,
            m_blasDeviceAddress, instanceBuffer, asLog>>

asVarsButStep == <<blasInputs, buildSizes, sizeQueries, structures, builds, gpuBuild,
                   m_blasDeviceAddress, instanceBuffer, asLog>>

sbtVars == <<physicalDeviceRayTracingPipelineProperties, sbtBufferAddress,
             shaderGroupHandleSize, shaderBindingTableSize, shaderGroupBaseAlignment,
             shaderGroupHandlesBuffer, sbtMappedSize, sbtMemoryMapped, sbtI, sbtCopies,
             m_rchitShaderBindingTable, m_rgenShaderBindingTable,
             m_rmissShaderBindingTable, m_pipeline, sbtHandleRequests>>

pipelineVars == <<m_pipeline, sbtHandleRequests>>

uploadVars == <<uploadIndex, stagingBuffers, bufferBytes, pendingCopy, uploadLog>>

textureVars == <<images, m_images, m_imageViews, m_imageMemory, textureI,
                 vectorAccesses, uncheckedFailures, texturesLayoutCount,
                 texturesWrites>>

initVars == <<packVars, buffers, asVars, sbtVars, uploadVars, textureVars>>

frameVarsButPc == <<m_frameIndex, m_imageIndex, m_inFlightFences,
                    m_imageAvailableSemaphores, m_renderFinishedSemaphores,
                    m_commandBuffers, queue, presents, frame, acquireCount,
                    lastAcquire, lastSubmit, lastPresent, failedCall,
                    capabilities, m_swapchain, camera, uniformBlock, alive, destroyLog,
                    m_shouldQuit, windowShouldClose,
                    gltfModel, m_descriptorPool, descriptorSets, materialInfo,
                    imageBindings>>

windowVars == <<m_shouldQuit, windowShouldClose>>

modelVars == <<gltfModel, m_descriptorPool, descriptorSets, materialInfo, imageBindings>>

contextVars == <<capabilities, m_swapchain, camera, uniformBlock, alive, destroyLog,
                 windowVars, modelVars>>

vars == <<frameVars, initVars, contextVars>>

\* A specification that does not run a part of the program leaves the
\* variables of that part at a fixed value.
PackUnused ==
    /\ m_model = <<>>
    /\ m_vertexDataSize = 0
    /\ m_indexDataSize = 0
    /\ vertexData = 0
    /\ indices = <<>>
    /\ indexStores = <<>>
    /\ vertexCopies = <<>>
    /\ packNext = 0
    /\ indexCounter = 0
    /\ indexCounterOffset = 0
    /\ vertexByteOffset = 0
    /\ indexByteOffset = 0
    /\ m_primitiveInfos = <<>>
    /\ m_triangleCount = 0

\* Before createBLAS nothing of the acceleration structures exists.
ASInitial ==
    /\ step = 1
    /\ blasInputs = [geometries |-> <<>>, triangleCounts |-> <<>>, rangeInfos |-> <<>>]
    /\ buildSizes = [a \in {"blas", "tlas"} |->
                        [accelerationStructureSize |-> 0, buildScratchSize |-> 0]]
    /\ sizeQueries = [a \in {"blas", "tlas"} |-> <<>>]
    /\ structures = [a \in {"blas", "tlas"} |-> <<>>]
    /\ builds = [a \in {"blas", "tlas"} |-> <<>>]
    /\ gpuBuild = [a \in {"blas", "tlas"} |-> "none"]
    /\ m_blasDeviceAddress = 0
    /\ instanceBuffer = <<>>
    /\ asLog = <<>>

\* No copy command is in flight.
NoCopy == [src |-> "", dst |-> "", srcOffset |-> 0, dstOffset |-> 0, size |-> 0,
           state |-> "none"]

\* Before the first upload no staging buffer exists and nothing was copied.
UploadInitial ==
    /\ uploadIndex = 1
    /\ stagingBuffers = <<>>
    /\ bufferBytes = <<>>
    /\ pendingCopy = NoCopy
    /\ uploadLog = <<>>

\* Before createTextures: no image, view or memory exists.
TexturesInitial ==
    /\ m_images = <<>>
    /\ m_imageViews = <<>>
    /\ m_imageMemory = -1
    /\ imageBindings = <<>>
    /\ textureI = 0
    /\ vectorAccesses = {}
    /\ uncheckedFailures = {}
    /\ texturesLayoutCount = -1
    /\ texturesWrites = <<>>

TexturesUnused ==
    /\ images = <<>>
    /\ TexturesInitial

\* VkStridedDeviceAddressRegionKHR{}
NoRegion == [deviceAddress |-> 0, stride |-> 0, size |-> 0]

\* Before createShaderBindingTable its locals do not exist and the three
\* regions are as Raytracer.hpp initialises them.
SBTLocalsInitial ==
    /\ shaderGroupHandleSize = 0
    /\ shaderBindingTableSize = 0
    /\ shaderGroupBaseAlignment = 0
    /\ shaderGroupHandlesBuffer = 0
    /\ sbtMappedSize = 0
    /\ sbtMemoryMapped = 0
    /\ sbtI = 0
    /\ sbtCopies = <<>>
    /\ m_rchitShaderBindingTable = NoRegion
    /\ m_rgenShaderBindingTable = NoRegion
    /\ m_rmissShaderBindingTable = NoRegion
    /\ sbtHandleRequests = <<>>

SBTUnused ==
    /\ physicalDeviceRayTracingPipelineProperties = <<>>
    /\ sbtBufferAddress = 0
    /\ m_pipeline = "uninitialised"
    /\ SBTLocalsInitial

ModelUnused ==
    /\ gltfModel = <<>>
    /\ m_descriptorPool = <<>>
    /\ descriptorSets = <<>>
    /\ materialInfo = <<>>

ContextUnused ==
    /\ capabilities = <<>>
    /\ m_swapchain = "created"
    /\ camera = <<>>
    /\ uniformBlock = <<>>
    /\ alive = {}
    /\ destroyLog = <<>>
    /\ m_shouldQuit = FALSE
    /\ windowShouldClose = FALSE
    /\ ModelUnused

FrameUnused ==
    /\ m_frameIndex = 0
    /\ m_imageIndex = 0
    /\ m_inFlightFences = <<>>
    /\ m_imageAvailableSemaphores = <<>>
    /\ m_renderFinishedSemaphores = <<>>
    /\ m_commandBuffers = <<>>
    /\ queue = <<>>
    /\ presents = <<>>
    /\ frame = 0
    /\ acquireCount = 0
    /\ lastAcquire = <<>>
    /\ lastSubmit = <<>>
    /\ lastPresent = <<>>
    /\ failedCall = "none"

(***************************************************************************)
(* Program constants and bounds                                            *)
(***************************************************************************)

\* VulkanUtils.hpp: const uint32_t c_swapchainImageCount = 3;
c_swapchainImageCount == 3

\* Raytracer.cpp: c_uniformBufferSize = sizeof(UniformBufferInfo):
\* two mat4 (64 bytes each), four vec4 (16 each), an array of four vec4.
c_uniformBufferSize == 256

\* The VkResult values a fallible call can return: success, a status that
\* is not an error (timeout, suboptimal), and an error.
VkResults == {"VK_SUCCESS", "VK_TIMEOUT", "VK_SUBOPTIMAL_KHR", "VK_ERROR_DEVICE_LOST"}

\* VulkanUtils.hpp: VK_CHECK(f) aborts unless the result is VK_SUCCESS;
\* TRUE when the program goes on.
VK_CHECK(result) == result = "VK_SUCCESS"

\* The number of frames the model lets main's loop run.
MaxFrames == 4

\* "Nothing yet" values of the records the latest calls leave behind.
NoAcquire == [slot |-> -1, image |-> -1]
NoSubmit == [cb |-> -1, wait |-> -1, signal |-> -1, fence |-> -1,
             uniform |-> [first |-> 0, last |-> -1]]
NoPresent == [wait |-> -1, image |-> -1]

(***************************************************************************)
(* Context: construction                                                   *)
(***************************************************************************)

\* VulkanUtils.hpp line 24: c_surfaceFormat.
c_surfaceFormat ==
    [format |-> "VK_FORMAT_B8G8R8A8_UNORM", colorSpace |-> "VK_COLOR_SPACE_SRGB_NONLINEAR_KHR"]

\* Context.cpp line 11: c_presentMode.
c_presentMode == "VK_PRESENT_MODE_MAILBOX_KHR"

\* Utils.hpp lines 32-33: c_windowWidth, c_windowHeight.
c_windowWidth == 1600
c_windowHeight == 1200

\* The surface formats and present modes a device of the small models may list.
SurfaceFormats ==
    {[format |-> f, colorSpace |-> c] :
        f \in {"VK_FORMAT_B8G8R8A8_UNORM", "VK_FORMAT_R8G8B8A8_SRGB"},
        c \in {"VK_COLOR_SPACE_SRGB_NONLINEAR_KHR", "VK_COLOR_SPACE_HDR10_ST2084_EXT"}}

PresentModes == {"VK_PRESENT_MODE_MAILBOX_KHR", "VK_PRESENT_MODE_FIFO_KHR"}

\* What getSwapchainCapabilities and getQueueFamilies may report.
DeviceReports ==
    [formats        : SUBSET SurfaceFormats,
     presentModes   : SUBSET PresentModes,
     minImageCount  : {2, 3},
     maxImageCount  : {3, 8},
     maxImageExtent : {[width |-> 1600, height |-> 1200], [width |-> 1024, height |-> 768]},
     sameQueueFamily : BOOLEAN]

\* Lines 354-359: bool formatAvailable = true; for every listed format,
\* formatAvailable = formatAvailable || (the format is c_surfaceFormat).
formatAvailable(formats) ==
    TRUE \/ \E format \in formats :
                /\ c_surfaceFormat.format = format.format
                /\ format.colorSpace = c_surfaceFormat.colorSpace

\* Lines 359-374: the CHECKs of createSwapchain before the swapchain is
\* created, in their order, each with the condition it tests.
SwapchainChecks(report) ==
    <<[check |-> "formatAvailable", holds |-> formatAvailable(report.formats)],
      [check |-> "foundPresentMode", holds |-> c_presentMode \in report.presentModes],
      [check |-> "extent.width", holds |-> c_windowWidth <= report.maxImageExtent.width],
      [check |-> "extent.height", holds |-> c_windowHeight <= report.maxImageExtent.height],
      [check |-> "minImageCount", holds |-> c_swapchainImageCount > report.minImageCount],
      [check |-> "maxImageCount", holds |-> c_swapchainImageCount < report.maxImageCount],
      [check |-> "graphicsFamily == presentFamily", holds |-> report.sameQueueFamily]>>

\* The first CHECK that fails, or "none".
FirstFailedCheck(report) ==
    LET failing == {i \in DOMAIN SwapchainChecks(report) : ~SwapchainChecks(report)[i].holds}
    IN  IF failing = {} THEN "none"
        ELSE SwapchainChecks(report)[CHOOSE i \in failing : \A j \in failing : i <= j].check

\* Context::createSwapchain, lines 350-400: the CHECKs, then
\* VK_CHECK(vkCreateSwapchainKHR), then CHECK(queriedImageCount ==
\* c_swapchainImageCount).
createSwapchain ==
    /\ pc = "createSwapchain"
    /\ IF FirstFailedCheck(capabilities) # "none"
       THEN /\ failedCall' = FirstFailedCheck(capabilities)
            /\ pc' = "aborted"
            /\ UNCHANGED m_swapchain
       ELSE \E result \in VkResults, queriedImageCount \in {3, 4} :
            IF ~VK_CHECK(result)
            THEN /\ failedCall' = "vkCreateSwapchainKHR"
                 /\ pc' = "aborted"
                 /\ UNCHANGED m_swapchain
            ELSE /\ m_swapchain' = "created"
                 /\ failedCall' = IF queriedImageCount = c_swapchainImageCount
                                  THEN failedCall ELSE "queriedImageCount"
                 /\ pc' = IF queriedImageCount = c_swapchainImageCount
                          THEN "createCommandPools" ELSE "aborted"
    /\ UNCHANGED <<initVars, capabilities, camera, uniformBlock, alive, destroyLog,
                   windowVars, modelVars>>
    /\ UNCHANGED <<m_frameIndex, m_imageIndex, m_inFlightFences,
                   m_imageAvailableSemaphores, m_renderFinishedSemaphores,
                   m_commandBuffers, queue, presents, frame, acquireCount,
                   lastAcquire, lastSubmit, lastPresent>>

\* Context::Context up to createSwapchain (lines 40-46): the device has
\* been created and reports something.
InitContext ==
    /\ pc = "createSwapchain"
    /\ capabilities \in DeviceReports
    /\ m_swapchain = "null"
    /\ camera = <<>>
    /\ uniformBlock = <<>>
    /\ alive = {}
    /\ destroyLog = <<>>
    /\ m_shouldQuit = FALSE
    /\ windowShouldClose = FALSE
    /\ ModelUnused
    /\ FrameUnused
    /\ PackUnused
    /\ buffers = <<>>
    /\ ASInitial
    /\ SBTUnused
    /\ UploadInitial
    /\ TexturesUnused

NextContext == createSwapchain

SpecContext == InitContext /\ [][NextContext]_vars

\* C18: when the device does not list c_surfaceFormat (format and colour
\* space), createSwapchain aborts and no swapchain is created.
C18_UnsupportedFormatAborts ==
    (pc # "createSwapchain" /\ c_surfaceFormat \notin capabilities.formats) =>
        /\ pc = "aborted"
        /\ m_swapchain = "null"

\* Context::createSwapchain: m_swapchainImages.resize(c_swapchainImageCount)
SwapchainImages == 0 .. (c_swapchainImageCount - 1)

\* Context::createSemaphores: both vectors are resized to the number of
\* swapchain images and one semaphore is created per element, unsignaled.
createSemaphores(swapchainImageCount) ==
    [i \in 0 .. (swapchainImageCount - 1) |-> 0]

\* Context::createFences: one fence per swapchain image, created with
\* VK_FENCE_CREATE_SIGNALED_BIT.
createFences(swapchainImageCount) ==
    [i \in 0 .. (swapchainImageCount - 1) |-> "signaled"]

\* Raytracer::allocateCommandBuffers: one primary command buffer per
\* swapchain image view.
allocateCommandBuffers(swapchainImageViewCount) ==
    [i \in 0 .. (swapchainImageViewCount - 1) |-> "initial"]

\* Context.hpp: uint32_t m_frameIndex{0};
InitialFrameIndex == 0

(***************************************************************************)
(* Context::acquireNextSwapchainImage                                      *)
(***************************************************************************)

\* A wrap one slot too early: the last slot is never used.
NextFrameIndex_wrapEarly(frameIndex) ==
    IF frameIndex + 1 >= Cardinality(SwapchainImages) - 1 THEN 0 ELSE frameIndex + 1

\* ++m_frameIndex; if (m_frameIndex == ui32Size(m_swapchainImages)) m_frameIndex = 0;
NextFrameIndex(frameIndex) ==
    IF frameIndex + 1 = Cardinality(SwapchainImages) THEN 0 ELSE frameIndex + 1

\* The image indices vkAcquireNextImageKHR may return.  The application
\* holds no image when it calls acquire (every acquired image was handed
\* back by vkQueuePresentKHR), and the call may return regardless of when
\* the queued present requests complete: the image's availability is what
\* the semaphore signals.  So every image index is a possible result.
AcquirableImages == SwapchainImages

\* A call whose timeout result is taken for success.
FrameCallPasses_timeoutTolerated(result) == result \in {"VK_SUCCESS", "VK_TIMEOUT"}

\* A call whose result is not looked at.
FrameCallPasses_unchecked(result) == TRUE

\* VK_CHECK around vkAcquireNextImageKHR, vkWaitForFences, vkResetFences
\* (lines 148-150), vkQueueSubmit (line 168) and vkQueuePresentKHR (line 179).
FrameCallPasses(result) == VK_CHECK(result)

\* The call that did not return VK_SUCCESS, if any; the first of them when
\* a later call was reached regardless.
Failed(call, result) ==
    IF result # "VK_SUCCESS" /\ failedCall = "none" THEN call ELSE failedCall

\* Lines 143-148: advance the frame slot and acquire an image, which will
\* signal the slot's image-available semaphore.  Any result other than
\* VK_SUCCESS aborts.
AcquireImage ==
    /\ pc = "acquire"
    /\ frame < MaxFrames
    /\ \E image \in AcquirableImages, result \in VkResults :
        LET slot == NextFrameIndex(m_frameIndex) IN
        /\ m_frameIndex' = slot
        /\ failedCall' = Failed("vkAcquireNextImageKHR", result)
        /\ IF FrameCallPasses(result)
           THEN /\ m_imageIndex' = image
                /\ m_imageAvailableSemaphores' =
                       [m_imageAvailableSemaphores EXCEPT ![slot] = @ + 1]
                /\ lastAcquire' = [slot |-> slot, image |-> image]
                /\ pc' = "waitFence"
           ELSE /\ lastAcquire' = [lastAcquire EXCEPT !.slot = slot]
                /\ pc' = "aborted"
                /\ UNCHANGED <<m_imageIndex, m_imageAvailableSemaphores>>
    /\ acquireCount' = acquireCount + 1
    /\ UNCHANGED <<initVars, contextVars>>
    /\ UNCHANGED <<m_inFlightFences, m_renderFinishedSemaphores, m_commandBuffers,
                   queue, presents, frame, lastSubmit, lastPresent>>

\* Lines 149-151: vkWaitForFences blocks until the slot's fence is
\* signaled or c_timeout has passed, vkResetFences unsignals it, and the
\* image index is returned.  VK_SUCCESS of the wait means that the fence is
\* signaled, VK_TIMEOUT that it is not.
WaitAndResetFence ==
    /\ pc = "waitFence"
    /\ \E waitResult \in VkResults, resetResult \in VkResults :
        /\ waitResult = "VK_SUCCESS" => m_inFlightFences[m_frameIndex] = "signaled"
        /\ waitResult = "VK_TIMEOUT" => m_inFlightFences[m_frameIndex] = "unsignaled"
        /\ IF ~FrameCallPasses(waitResult)
           THEN /\ failedCall' = Failed("vkWaitForFences", waitResult)
                /\ pc' = "aborted"
                /\ UNCHANGED m_inFlightFences
           ELSE IF ~FrameCallPasses(resetResult)
           THEN /\ failedCall' = Failed("vkResetFences", resetResult)
                /\ pc' = "aborted"
                /\ UNCHANGED m_inFlightFences
           ELSE /\ failedCall' = Failed("vkResetFences", resetResult)
                /\ m_inFlightFences' =
                       [m_inFlightFences EXCEPT ![m_frameIndex] = "unsignaled"]
                /\ pc' = "update"
    /\ UNCHANGED <<initVars, contextVars>>
    /\ UNCHANGED <<m_frameIndex, m_imageIndex, m_imageAvailableSemaphores,
                   m_renderFinishedSemaphores, m_commandBuffers, queue, presents,
                   frame, acquireCount, lastAcquire, lastSubmit, lastPresent>>

(***************************************************************************)
(* Raytracer::update                                                       *)
(***************************************************************************)

\* Raytracer::update maps m_commonBufferMemory at offset 0 for
\* c_uniformBufferSize bytes and copies the uniform block there:
\* the bytes written for the frame slot, as [first, last].
UniformWriteRange(frameIndex) ==
    [first |-> 0, last |-> 0 + c_uniformBufferSize - 1]

\* Raytracer::createCommonBuffer: one buffer of c_uniformBufferSize bytes.
CommonBufferSize == c_uniformBufferSize

\* Raytracer::updateCommonDescriptorSets: the uniform descriptor is written
\* once, with offset 0 and range VK_WHOLE_SIZE: the bytes every submission
\* reads, whatever its frame slot.
UniformReadRange(frameIndex) ==
    [first |-> 0, last |-> CommonBufferSize - 1]

Overlap(a, b) == a.first <= b.last /\ b.first <= a.last

\* The keys and key actions GLFW reports, as far as the program tells them
\* apart, and the key events one glfwPollEvents call can deliver.
Keys == {"GLFW_KEY_ESCAPE", "GLFW_KEY_W"}
KeyActions == {"GLFW_PRESS", "GLFW_RELEASE"}
KeyEvents == [key : Keys, action : KeyActions]

\* The key events one call of glfwPollEvents delivers in the small models:
\* none, or one.
PolledEvents == {{}} \cup {{event} : event \in KeyEvents}

\* Context::handleKey, line 249: the key events that set m_shouldQuit.
handleKey(event) == event.action = "GLFW_RELEASE" /\ event.key = "GLFW_KEY_ESCAPE"

\* Context::update, line 124: glfwPollEvents delivers the key events that
\* arrived since the last call to handleKey, and sets the close flag of the
\* window when a close was requested.
glfwPollEvents(keyEvents, closeRequested) ==
    /\ m_shouldQuit' = (m_shouldQuit \/ \E event \in keyEvents : handleKey(event))
    /\ windowShouldClose' = (windowShouldClose \/ closeRequested)

\* Context::update with the close flag left out.
Context_update_ignoresClose(shouldClose, shouldQuit) == ~shouldQuit

\* Context::update, line 126: what it returns.
Context_update(shouldClose, shouldQuit) == ~(shouldClose \/ shouldQuit)

\* Raytracer::update, lines 206-210: Context::update polls the window; when
\* it reports that the application should stop, update returns false and
\* so does render.
UpdateQuit ==
    /\ pc = "update"
    /\ \E keyEvents \in PolledEvents, closeRequested \in BOOLEAN :
        glfwPollEvents(keyEvents, closeRequested)
    /\ ~Context_update(windowShouldClose', m_shouldQuit')
    /\ pc' = "exit"
    /\ UNCHANGED <<initVars, capabilities, m_swapchain, camera, uniformBlock, alive,
                   destroyLog, modelVars>>
    /\ UNCHANGED <<m_frameIndex, m_imageIndex, m_inFlightFences,
                   m_imageAvailableSemaphores, m_renderFinishedSemaphores,
                   m_commandBuffers, queue, presents, frame, acquireCount,
                   lastAcquire, lastSubmit, lastPresent, failedCall>>

\* Raytracer::update, lines 206-217: the application keeps running; the
\* camera is updated and the uniform block is about to be written.
UpdateRunning ==
    /\ pc = "update"
    /\ \E keyEvents \in PolledEvents, closeRequested \in BOOLEAN :
        glfwPollEvents(keyEvents, closeRequested)
    /\ Context_update(windowShouldClose', m_shouldQuit')
    /\ pc' = "writeUniform"
    /\ UNCHANGED <<initVars, capabilities, m_swapchain, camera, uniformBlock, alive,
                   destroyLog, modelVars>>
    /\ UNCHANGED <<m_frameIndex, m_imageIndex, m_inFlightFences,
                   m_imageAvailableSemaphores, m_renderFinishedSemaphores,
                   m_commandBuffers, queue, presents, frame, acquireCount,
                   lastAcquire, lastSubmit, lastPresent, failedCall>>

\* The largest coordinate of the camera positions of the small models.
MaxCoordinate == 1

Coordinates == (-1) .. MaxCoordinate

\* Camera::getForward, getLeft and getUp for the camera at rest (Utils.hpp:
\* c_forward, c_left, c_up) and after a quarter turn of yaw or of pitch.
Orientations ==
    {[forward |-> <<0, 0, -1>>, left |-> <<-1, 0, 0>>, up |-> <<0, 1, 0>>],
     [forward |-> <<-1, 0, 0>>, left |-> <<0, 0, 1>>,  up |-> <<0, 1, 0>>],
     [forward |-> <<0, 1, 0>>,  left |-> <<-1, 0, 0>>, up |-> <<0, 0, 1>>]}

\* What the getters of a Camera return: position, forward, left, up.
Camera(position, orientation) ==
    [position |-> position, forward |-> orientation.forward,
     left |-> orientation.left, up |-> orientation.up]

Cameras ==
    {Camera(<<x, y, z>>, o) : x \in Coordinates, y \in Coordinates, z \in Coordinates,
                              o \in Orientations}

\* Raytracer::setupCamera, lines 266-270, in whole units: position
\* (6.3, 4.5, -0.7), a quarter turn of yaw (1.57 rad).
SetupCamera ==
    [position |-> <<6, 4, -1>>, forward |-> <<-1, 0, 0>>, left |-> <<0, 0, 1>>,
     up |-> <<0, 1, 0>>]

\* glm's unary minus on a vec3.
Negated(v) == <<-v[1], -v[2], -v[3]>>

\* Utils.cpp: glm::vec4 toVec4(glm::vec3 v, float w)
\*     { return glm::vec4(v.x, v.y, v.x, w); }
toVec4(v, w) == <<v[1], v[2], v[1], w>>

\* Raytracer.cpp lines 21-26: the x, y, z of c_lightPositions, w = 0.
c_lightPositions == <<<<6, 6, 0, 0>>, <<2, 5, 0, 0>>, <<-2, 4, 0, 0>>, <<-6, 3, 0, 0>>>>

\* Lines 223-230: the UniformBufferInfo built from m_camera (the two inverse
\* matrices are left out).
UniformBufferInfo(m_camera) ==
    [forward        |-> toVec4(m_camera.forward, 0),
     right          |-> toVec4(Negated(m_camera.left), 0),
     up             |-> toVec4(m_camera.up, 0),
     position       |-> toVec4(m_camera.position, 1),
     lightPositions |-> c_lightPositions]

\* Raytracer::update, lines 219-236: VK_CHECK(vkMapMemory), memcpy of the
\* uniform block built from the camera, unmap.  The bytes written are
\* UniformWriteRange(m_frameIndex).
WriteUniform ==
    /\ pc = "writeUniform"
    /\ \E result \in VkResults :
        /\ failedCall' = Failed("vkMapMemory", result)
        /\ IF VK_CHECK(result)
           THEN /\ uniformBlock' = UniformBufferInfo(camera)
                /\ pc' = "record"
           ELSE /\ uniformBlock' = uniformBlock
                /\ pc' = "aborted"
    /\ UNCHANGED <<initVars, capabilities, m_swapchain, camera, alive, destroyLog,
                   windowVars, modelVars>>
    /\ UNCHANGED <<m_frameIndex, m_imageIndex, m_inFlightFences,
                   m_imageAvailableSemaphores, m_renderFinishedSemaphores,
                   m_commandBuffers, queue, presents, frame, acquireCount,
                   lastAcquire, lastSubmit, lastPresent>>

(***************************************************************************)
(* Raytracer::render: recording                                            *)
(***************************************************************************)

\* VkCommandBuffer cb = m_commandBuffers[imageIndex];
CommandBufferIndex(frameIndex, imageIndex) == imageIndex

\* The calls of a list whose result is not VK_SUCCESS.
FailedCalls(calls, results) ==
    {calls[i] : i \in {j \in DOMAIN calls : results[j] # "VK_SUCCESS"}}

\* Lines 142-197: vkResetCommandBuffer and vkBeginCommandBuffer (lines
\* 148-149, their results not looked at), the recorded commands, and
\* VK_CHECK(vkEndCommandBuffer) (line 197).
RecordCommandBuffer ==
    /\ pc = "record"
    /\ \E resetResult \in VkResults, beginResult \in VkResults, endResult \in VkResults :
        /\ uncheckedFailures' =
               uncheckedFailures \cup
                   FailedCalls(<<"vkResetCommandBuffer", "vkBeginCommandBuffer">>,
                               <<resetResult, beginResult>>)
        /\ failedCall' = Failed("vkEndCommandBuffer", endResult)
        /\ IF VK_CHECK(endResult)
           THEN /\ m_commandBuffers' =
                       [m_commandBuffers EXCEPT
                           ![CommandBufferIndex(m_frameIndex, m_imageIndex)] = "executable"]
                /\ pc' = "submit"
           ELSE /\ pc' = "aborted"
                /\ UNCHANGED m_commandBuffers
    /\ UNCHANGED <<packVars, buffers, asVars, sbtVars, uploadVars, contextVars>>
    /\ UNCHANGED <<images, m_images, m_imageViews, m_imageMemory, textureI,
                   vectorAccesses, texturesLayoutCount, texturesWrites>>
    /\ UNCHANGED <<m_frameIndex, m_imageIndex, m_inFlightFences,
                   m_imageAvailableSemaphores, m_renderFinishedSemaphores,
                   queue, presents, frame, acquireCount,
                   lastAcquire, lastSubmit, lastPresent>>

(***************************************************************************)
(* Context::submitCommandBuffers                                           *)
(***************************************************************************)

\* submitInfo.pWaitSemaphores = &m_imageAvailableSemaphores[m_frameIndex];
SubmitWaitSemaphore(frameIndex) == frameIndex
\* submitInfo.pSignalSemaphores = &m_renderFinishedSemaphores[m_frameIndex];
SubmitSignalSemaphore(frameIndex) == frameIndex
\* The fence of the slot after the current one.
SubmitFence_nextSlot(frameIndex) == (frameIndex + 1) % c_swapchainImageCount

\* vkQueueSubmit(m_graphicsQueue, 1, &submitInfo, m_inFlightFences[m_frameIndex])
SubmitFence(frameIndex) == frameIndex
\* presentInfo.pWaitSemaphores = &m_renderFinishedSemaphores[m_frameIndex];
PresentWaitSemaphore(frameIndex) == frameIndex
\* presentInfo.pImageIndices = &m_imageIndex;
PresentImageIndex(frameIndex, imageIndex) == imageIndex

\* Lines 154-180, called from Raytracer::render line 199 with {cb}; render
\* then returns true and main calls it again.  A result of vkQueueSubmit or
\* of vkQueuePresentKHR other than VK_SUCCESS aborts.
submitCommandBuffers ==
    /\ pc = "submit"
    /\ \E submitResult \in VkResults, presentResult \in VkResults :
       LET submission ==
               [cb      |-> CommandBufferIndex(m_frameIndex, m_imageIndex),
                wait    |-> SubmitWaitSemaphore(m_frameIndex),
                signal  |-> SubmitSignalSemaphore(m_frameIndex),
                fence   |-> SubmitFence(m_frameIndex),
                uniform |-> UniformReadRange(m_frameIndex)]
           present ==
               [wait  |-> PresentWaitSemaphore(m_frameIndex),
                image |-> PresentImageIndex(m_frameIndex, m_imageIndex)]
       IN  IF ~FrameCallPasses(submitResult)
           THEN /\ failedCall' = Failed("vkQueueSubmit", submitResult)
                /\ pc' = "aborted"
                /\ UNCHANGED <<queue, presents, lastSubmit, lastPresent, frame>>
           ELSE IF ~FrameCallPasses(presentResult)
           THEN /\ failedCall' = Failed("vkQueuePresentKHR", presentResult)
                /\ queue' = Append(queue, submission)
                /\ lastSubmit' = submission
                /\ pc' = "aborted"
                /\ UNCHANGED <<presents, lastPresent, frame>>
           ELSE /\ failedCall' = Failed("vkQueuePresentKHR", presentResult)
                /\ queue' = Append(queue, submission)
                /\ presents' = Append(presents, present)
                /\ lastSubmit' = submission
                /\ lastPresent' = present
                /\ frame' = frame + 1
                /\ pc' = "acquire"
    /\ UNCHANGED <<initVars, contextVars>>
    /\ UNCHANGED <<m_frameIndex, m_imageIndex, m_inFlightFences,
                   m_imageAvailableSemaphores, m_renderFinishedSemaphores,
                   m_commandBuffers, acquireCount, lastAcquire>>

(***************************************************************************)
(* The GPU and the presentation engine                                     *)
(***************************************************************************)

\* The graphics queue finishes its oldest submission: the wait on the
\* image-available semaphore is satisfied (the presentation engine has
\* signaled it), the command buffer has executed, and the render-finished
\* semaphore and the fence are signaled.
GPUComplete ==
    /\ queue # <<>>
    /\ LET s == Head(queue) IN
        /\ m_imageAvailableSemaphores[s.wait] > 0
        /\ m_imageAvailableSemaphores' =
               [m_imageAvailableSemaphores EXCEPT ![s.wait] = @ - 1]
        /\ m_renderFinishedSemaphores' =
               [m_renderFinishedSemaphores EXCEPT ![s.signal] = @ + 1]
        /\ m_inFlightFences' = [m_inFlightFences EXCEPT ![s.fence] = "signaled"]
    /\ queue' = Tail(queue)
    /\ UNCHANGED <<initVars, contextVars>>
    /\ UNCHANGED <<pc, m_frameIndex, m_imageIndex, m_commandBuffers, presents,
                   frame, acquireCount, lastAcquire, lastSubmit, lastPresent, failedCall>>

\* The presentation engine executes its oldest present request once the
\* semaphore the request waits on is signaled.
PresentExecute ==
    /\ presents # <<>>
    /\ LET p == Head(presents) IN
        /\ m_renderFinishedSemaphores[p.wait] > 0
        /\ m_renderFinishedSemaphores' =
               [m_renderFinishedSemaphores EXCEPT ![p.wait] = @ - 1]
    /\ presents' = Tail(presents)
    /\ UNCHANGED <<initVars, contextVars>>
    /\ UNCHANGED <<pc, m_frameIndex, m_imageIndex, m_inFlightFences,
                   m_imageAvailableSemaphores, m_commandBuffers, queue,
                   frame, acquireCount, lastAcquire, lastSubmit, lastPresent, failedCall>>

(***************************************************************************)
(* Claims about the frame loop (checked under SpecFrame)                   *)
(***************************************************************************)

\* The submissions the GPU has not finished.
Unfinished == {queue[k] : k \in 1 .. Len(queue)}

\* C1: whenever Raytracer::render is about to reset and re-record a command
\* buffer, the GPU has finished every earlier submission of that command
\* buffer, whatever image indices the swapchain returned.
C1_NoUseBeforeSignal ==
    pc = "record" =>
        \A s \in Unfinished : s.cb # CommandBufferIndex(m_frameIndex, m_imageIndex)

\* C2: whenever Raytracer::update is about to write the uniform block, no
\* unfinished submission of any slot reads the bytes being written.
C2_NoWriteWhileRead ==
    pc = "writeUniform" =>
        \A s \in Unfinished : ~Overlap(UniformWriteRange(m_frameIndex), s.uniform)

\* C3 as stated: 3 fences and 3 + 3 semaphores exist, and the k-th call of
\* acquireNextSwapchainImage (k = 1, 2, ...) uses slot (k - 1) mod 3, i.e.
\* 0,1,2,0,1,2,..., the first call using slot 0.
C3_CyclesFromZero ==
    /\ Cardinality(DOMAIN m_inFlightFences) = 3
    /\ Cardinality(DOMAIN m_imageAvailableSemaphores) = 3
    /\ Cardinality(DOMAIN m_renderFinishedSemaphores) = 3
    /\ m_frameIndex \in 0 .. 2
    /\ acquireCount > 0 => lastAcquire.slot = (acquireCount - 1) % 3

\* C3 as amended: 3 fences and 3 + 3 semaphores exist, and the k-th call of
\* acquireNextSwapchainImage uses slot k mod 3, i.e. 1,2,0,1,2,0,...: the
\* index is advanced (exactly once per call) before it is used, so the first
\* call uses slot 1; the index always stays within 0..2.
C3_CyclesFromOne ==
    /\ Cardinality(DOMAIN m_inFlightFences) = 3
    /\ Cardinality(DOMAIN m_imageAvailableSemaphores) = 3
    /\ Cardinality(DOMAIN m_renderFinishedSemaphores) = 3
    /\ m_frameIndex \in 0 .. 2
    /\ acquireCount > 0 =>
           /\ lastAcquire.slot = acquireCount % 3
           /\ m_frameIndex = lastAcquire.slot

\* C3 witness: the fourth call has been made and is back at the slot of
\* the first one.
C3_Witness == acquireCount = 4 /\ lastAcquire.slot = 1

\* C4: a submitCommandBuffers call waits on the image-available semaphore,
\* signals the render-finished semaphore and signals the fence of the slot
\* the preceding acquireNextSwapchainImage selected; its present request
\* waits on that render-finished semaphore and presents the acquired image.
C4_SubmitUsesAcquiredSlot ==
    (pc = "acquire" /\ frame > 0) =>
        /\ lastSubmit.wait = lastAcquire.slot
        /\ lastSubmit.signal = lastAcquire.slot
        /\ lastSubmit.fence = lastAcquire.slot
        /\ lastPresent.wait = lastSubmit.signal
        /\ lastPresent.image = lastAcquire.image

\* C4 witness: a second frame has been submitted, for an image whose index
\* differs from the slot's.
C4_Witness ==
    pc = "acquire" /\ frame = 2 /\ lastAcquire.image # lastAcquire.slot
        /\ lastSubmit.fence = lastAcquire.slot

\* C21: when acquireNextSwapchainImage has handed the slot's image-available
\* semaphore to vkAcquireNextImageKHR, no unfinished submission still waits
\* on that semaphore, and the semaphore has been asked to signal only once
\* since its last wait completed.
C21_SemaphoreIdleWhenAcquired ==
    pc = "waitFence" =>
        /\ \A s \in Unfinished : s.wait # m_frameIndex
        /\ m_imageAvailableSemaphores[m_frameIndex] = 1

\* The frame slots that have an unfinished submission.
BusySlots == {s.fence : s \in Unfinished}

\* C23: from the fence reset of acquireNextSwapchainImage until the submit
\* (Raytracer::update and the recording in Raytracer::render), the slot the
\* latest acquire selected has no unfinished submission and at most N - 1
\* other slots have one; at no time are more than N submissions unfinished
\* (N = c_swapchainImageCount).
C23_AtMostNFramesInFlight ==
    /\ Len(queue) <= c_swapchainImageCount
    /\ pc \in {"update", "writeUniform", "record", "submit"} =>
           /\ m_frameIndex \notin BusySlots
           /\ Cardinality(BusySlots) <= c_swapchainImageCount - 1
           /\ Len(queue) <= c_swapchainImageCount - 1

\* C23 witness: the fourth frame is being recorded, for the slot the first
\* frame used, while the two frames before it are unfinished.
C23_Witness ==
    /\ pc = "record"
    /\ frame = 3
    /\ m_frameIndex = 1
    /\ Cardinality(BusySlots) = c_swapchainImageCount - 1

\* C24: when render has returned false, every image acquired has been
\* submitted and presented (as many successful submitCommandBuffers calls
\* as acquires), and the fence the latest acquire reset is signaled or has
\* a submission queued that will signal it: the frame in which the
\* application decides to quit included.
C24_AcquiredImageIsSubmitted ==
    pc = "exit" =>
        /\ frame = acquireCount
        /\ \/ m_inFlightFences[m_frameIndex] = "signaled"
           \/ m_frameIndex \in BusySlots

\* C16: a result other than VK_SUCCESS (a timeout included) of the image
\* acquire, the fence wait, the fence reset, the queue submit or the
\* present aborts the process at that call; once aborted, the CPU thread
\* takes no further step: no retry, no submit, no present, no later frame.
C16_FailedFrameCallAborts ==
    /\ [](failedCall # "none" => pc = "aborted")
    /\ [][pc = "aborted" =>
              /\ pc' = "aborted"
              /\ UNCHANGED <<m_frameIndex, m_imageIndex, m_commandBuffers, frame,
                             acquireCount, lastAcquire, lastSubmit, lastPresent,
                             failedCall>>
              /\ Len(queue') <= Len(queue)
              /\ Len(presents') <= Len(presents)]_vars

\* The present of the second frame failed and the process has aborted.
C16_Witness ==
    /\ pc = "aborted"
    /\ failedCall = "vkQueuePresentKHR"
    /\ frame = 1
    /\ acquireCount = 2

\* The first three components of a 4-vector.
Xyz(v) == <<v[1], v[2], v[3]>>

\* C20: in the uniform block written, position, right, up and forward have
\* the x, y and z of the camera's position, negated left, up and forward,
\* and the padding value (1 for the position, 0 for the directions) as the
\* fourth component.
C20_UniformVectorsEqualCamera ==
    uniformBlock # <<>> =>
        /\ Xyz(uniformBlock.position) = camera.position
        /\ Xyz(uniformBlock.right) = Negated(camera.left)
        /\ Xyz(uniformBlock.up) = camera.up
        /\ Xyz(uniformBlock.forward) = camera.forward
        /\ uniformBlock.position[4] = 1
        /\ uniformBlock.right[4] = 0
        /\ uniformBlock.up[4] = 0
        /\ uniformBlock.forward[4] = 0

(***************************************************************************)
(* The frame loop                                                          *)
(***************************************************************************)

InitFrame ==
    /\ pc = "acquire"
    /\ m_frameIndex = InitialFrameIndex
    /\ m_imageIndex = 0
    /\ m_inFlightFences = createFences(Cardinality(SwapchainImages))
    /\ m_imageAvailableSemaphores = createSemaphores(Cardinality(SwapchainImages))
    /\ m_renderFinishedSemaphores = createSemaphores(Cardinality(SwapchainImages))
    /\ m_commandBuffers = allocateCommandBuffers(Cardinality(SwapchainImages))
    /\ queue = <<>>
    /\ presents = <<>>
    /\ frame = 0
    /\ acquireCount = 0
    /\ lastAcquire = NoAcquire
    /\ lastSubmit = NoSubmit
    /\ lastPresent = NoPresent
    /\ failedCall = "none"
    /\ capabilities = <<>>
    /\ m_swapchain = "created"
    /\ camera = SetupCamera
    /\ uniformBlock = <<>>
    /\ alive = {}
    /\ destroyLog = <<>>
    /\ m_shouldQuit = FALSE
    /\ windowShouldClose = FALSE
    /\ ModelUnused
    /\ PackUnused
    /\ buffers = <<>>
    /\ ASInitial
    /\ SBTUnused
    /\ UploadInitial
    /\ TexturesUnused

NextFrame ==
    \/ AcquireImage
    \/ WaitAndResetFence
    \/ UpdateQuit
    \/ UpdateRunning
    \/ WriteUniform
    \/ RecordCommandBuffer
    \/ submitCommandBuffers
    \/ GPUComplete
    \/ PresentExecute

SpecFrame == InitFrame /\ [][NextFrame]_vars

\* Raytracer::update about to write the uniform block of the first frame,
\* for a camera at some position, in some orientation.
InitUniform ==
    /\ pc = "writeUniform"
    /\ m_frameIndex = NextFrameIndex(InitialFrameIndex)
    /\ m_imageIndex = 0
    /\ m_inFlightFences =
           [createFences(Cardinality(SwapchainImages))
                EXCEPT ![NextFrameIndex(InitialFrameIndex)] = "unsignaled"]
    /\ m_imageAvailableSemaphores =
           [createSemaphores(Cardinality(SwapchainImages))
                EXCEPT ![NextFrameIndex(InitialFrameIndex)] = 1]
    /\ m_renderFinishedSemaphores = createSemaphores(Cardinality(SwapchainImages))
    /\ m_commandBuffers = allocateCommandBuffers(Cardinality(SwapchainImages))
    /\ queue = <<>>
    /\ presents = <<>>
    /\ frame = 0
    /\ acquireCount = 1
    /\ lastAcquire = [slot |-> NextFrameIndex(InitialFrameIndex), image |-> 0]
    /\ lastSubmit = NoSubmit
    /\ lastPresent = NoPresent
    /\ failedCall = "none"
    /\ capabilities = <<>>
    /\ m_swapchain = "created"
    /\ camera \in Cameras
    /\ uniformBlock = <<>>
    /\ alive = {}
    /\ destroyLog = <<>>
    /\ m_shouldQuit = FALSE
    /\ windowShouldClose = FALSE
    /\ ModelUnused
    /\ PackUnused
    /\ buffers = <<>>
    /\ ASInitial
    /\ SBTUnused
    /\ UploadInitial
    /\ TexturesUnused

NextUniform == WriteUniform

SpecUniform == InitUniform /\ [][NextUniform]_vars

(***************************************************************************)
(* Model (Model.hpp, Model.cpp) and the models the loader can produce      *)
(***************************************************************************)

\* Model.hpp: using Index = uint32_t; sizeof(Model::Index)
SizeofIndex == 4

\* Model.hpp: struct Vertex holds four glm::vec4; sizeof(Model::Vertex)
SizeofVertex == 64

\* Model::Model: primitives (and materials, images) are loaded; the members
\* vertexBufferSizeInBytes and indexBufferSizeInBytes keep their default
\* member initialisers (Model.hpp: = 0), no code assigns them.
Model(primitives) ==
    [primitives              |-> primitives,
     vertexBufferSizeInBytes |-> 0,
     indexBufferSizeInBytes  |-> 0]

\* Bounds of the small models the checks enumerate.
MaxPrimitives == 2
MaxVertices == 2
MaxTriangles == 1

\* A primitive as loadPrimitives leaves it: a number of vertices and a
\* list of primitive-local indices (0-based, each below the vertex count),
\* here ascending or descending round the vertices.
Primitive(vertexCount, triangleCount, descending) ==
    [vertices |-> vertexCount,
     indices  |-> [k \in 1 .. (3 * triangleCount) |->
                     IF descending
                     THEN vertexCount - 1 - ((k - 1) % vertexCount)
                     ELSE (k - 1) % vertexCount]]

SmallPrimitives ==
    {Primitive(v, t, d) : v \in 1 .. MaxVertices, t \in 0 .. MaxTriangles,
                          d \in BOOLEAN}

\* The scene of the specification's scenario: two primitives of 100 and 50
\* triangles.
ScenarioPrimitives == <<Primitive(64, 100, FALSE), Primitive(32, 50, TRUE)>>

LoadablePrimitiveLists ==
    UNION {[1 .. n -> SmallPrimitives] : n \in 0 .. MaxPrimitives}
        \cup {ScenarioPrimitives}

(***************************************************************************)
(* Raytracer::createVertexAndIndexBuffer                                   *)
(***************************************************************************)

\* std::vector<T>::size() of a vector held as a function on 0 .. size-1.
VectorSize(v) == Cardinality(DOMAIN v)

\* Lines 657-663: highestIndex = max over the primitive's indices, from 0.
HighestIndex(localIndices) ==
    LET S == {localIndices[k] : k \in DOMAIN localIndices} \cup {0}
    IN  CHOOSE m \in S : \A x \in S : x <= m

\* Line 660: indices[indexCounter] = indexCounterOffset + index.  Both are
\* uint32_t; the sum wraps only for a model of 2^32 vertices or more, which
\* no loadable file holds (its 16-bit indices address 65536 vertices per
\* primitive), so the sum is the mathematical one.
PackedIndex(counterOffset, index) == counterOffset + index

\* The offset advanced by the primitive's index count.
NextIndexCounterOffset_byIndices(counterOffset, primitive) ==
    counterOffset + Len(primitive.indices)

\* Line 673: indexCounterOffset += primitive.vertices.size().
NextIndexCounterOffset(counterOffset, primitive) ==
    counterOffset + primitive.vertices

\* Lines 658-663: the stores of one primitive's inner loop, in order.
PrimitiveStores(primitive, counter, counterOffset) ==
    [k \in 1 .. Len(primitive.indices) |->
        [pos |-> counter + k - 1,
         val |-> PackedIndex(counterOffset, primitive.indices[k])]]

\* Lines 665-671: PrimitiveInfo{highestIndex, ui32Size(indices) / 3,
\* indexByteOffset}, the members createBLAS reads as maxVertex,
\* triangleCount and indexByteOffset.
PrimitiveInfo(primitive, byteOffset) ==
    [maxVertex       |-> HighestIndex(primitive.indices),
     triangleCount   |-> Len(primitive.indices) \div 3,
     indexByteOffset |-> byteOffset]

\* Whether a store lands inside the vector it is made to.
InBounds(store, vector) == store.pos \in DOMAIN vector

\* Whether a memcpy lands inside a byte array of the given size.
CopyInBounds(copy, size) == copy.size = 0 \/ copy.offset + copy.size <= size

\* Lines 643-653: the sizes are taken from the model, the two byte arrays
\* and the indices vector are sized from them, the counters start at 0.
BeginPack ==
    /\ pc = "createVertexAndIndexBuffer"
    /\ m_vertexDataSize' = m_model.vertexBufferSizeInBytes
    /\ m_indexDataSize' = m_model.indexBufferSizeInBytes
    /\ vertexData' = m_model.vertexBufferSizeInBytes
    /\ indices' = [i \in 0 .. ((m_model.indexBufferSizeInBytes \div SizeofIndex) - 1) |-> 0]
    /\ indexStores' = <<>>
    /\ vertexCopies' = <<>>
    /\ packNext' = 1
    /\ indexCounter' = 0
    /\ indexCounterOffset' = 0
    /\ vertexByteOffset' = 0
    /\ indexByteOffset' = 0
    /\ pc' = "pack"
    /\ UNCHANGED <<m_model, m_primitiveInfos, m_triangleCount, buffers>>
    /\ UNCHANGED asVars
    /\ UNCHANGED <<frameVarsButPc, textureVars, uploadVars, sbtVars>>

\* Lines 655-679: one iteration of the loop over m_model->primitives.  A
\* store or memcpy outside its array is undefined behaviour; here it goes
\* unnoticed (it lands in memory that is not the array) and the loop goes on.
PackPrimitive ==
    /\ pc = "pack"
    /\ packNext <= Len(m_model.primitives)
    /\ LET primitive == m_model.primitives[packNext]
           stores == PrimitiveStores(primitive, indexCounter, indexCounterOffset)
           vertexSize == SizeofVertex * primitive.vertices
       IN  /\ indexStores' = indexStores \o stores
           /\ indices' = [i \in DOMAIN indices |->
                            IF \E k \in DOMAIN stores : stores[k].pos = i
                            THEN stores[CHOOSE k \in DOMAIN stores : stores[k].pos = i].val
                            ELSE indices[i]]
           /\ indexCounter' = indexCounter + Len(primitive.indices)
           /\ m_primitiveInfos' =
                  Append(m_primitiveInfos, PrimitiveInfo(primitive, indexByteOffset))
           /\ indexCounterOffset' = NextIndexCounterOffset(indexCounterOffset, primitive)
           /\ vertexCopies' =
                  Append(vertexCopies, [offset |-> vertexByteOffset, size |-> vertexSize])
           /\ vertexByteOffset' = vertexByteOffset + vertexSize
           /\ indexByteOffset' = indexByteOffset + SizeofIndex * Len(primitive.indices)
    /\ packNext' = packNext + 1
    /\ UNCHANGED <<pc, m_model, m_vertexDataSize, m_indexDataSize, vertexData,
                   m_triangleCount, buffers>>
    /\ UNCHANGED asVars
    /\ UNCHANGED <<frameVarsButPc, textureVars, uploadVars, sbtVars>>

\* Lines 655-679: the other outcome of a store or memcpy outside its
\* array: the process faults.
PackPrimitiveFault ==
    /\ pc = "pack"
    /\ packNext <= Len(m_model.primitives)
    /\ LET primitive == m_model.primitives[packNext]
           stores == PrimitiveStores(primitive, indexCounter, indexCounterOffset)
           copy == [offset |-> vertexByteOffset, size |-> SizeofVertex * primitive.vertices]
       IN  (\E k \in DOMAIN stores : ~InBounds(stores[k], indices))
               \/ ~CopyInBounds(copy, vertexData)
    /\ pc' = "crashed"
    /\ UNCHANGED <<packVars, buffers>>
    /\ UNCHANGED asVars
    /\ UNCHANGED <<frameVarsButPc, textureVars, uploadVars, sbtVars>>

\* Lines 681-695: the triangle count, the primitive index vector and the
\* CHECK of the index data size; the uploads follow.
FinishPack ==
    /\ pc = "pack"
    /\ packNext > Len(m_model.primitives)
    /\ m_triangleCount' = VectorSize(indices) \div 3
    /\ pc' = IF m_indexDataSize = SizeofIndex * VectorSize(indices)
             THEN "createVertexAndIndexBuffer:uploads"
             ELSE "aborted"
    /\ UNCHANGED <<m_model, m_vertexDataSize, m_indexDataSize, vertexData, indices,
                   indexStores, vertexCopies, packNext, indexCounter,
                   indexCounterOffset, vertexByteOffset, indexByteOffset,
                   m_primitiveInfos, buffers>>
    /\ UNCHANGED asVars
    /\ UNCHANGED <<frameVarsButPc, textureVars, uploadVars, sbtVars>>

(***************************************************************************)
(* VulkanUtils (declared in VulkanUtils.hpp) and the driver                *)
(***************************************************************************)

\* createBuffer + allocateAndBindMemory: a buffer of the given size exists.
createBuffer(bufs, name, size) == (name :> size) @@ bufs

\* destroyBufferAndFreeMemory: the buffer no longer exists.
destroyBufferAndFreeMemory(bufs, name) ==
    [n \in (DOMAIN bufs) \ {name} |-> bufs[n]]

\* endSingleTimeCommands submits the one-shot command buffer and returns
\* only when the device has finished it.
endSingleTimeCommandsReturns(gpuState) == gpuState = "done"

SumSeq(q) ==
    LET RECURSIVE Upto(_)
        Upto(n) == IF n = 0 THEN 0 ELSE q[n] + Upto(n - 1)
    IN  Upto(Len(q))

\* vkGetAccelerationStructureBuildSizesKHR: the sizes the driver reports for
\* a build of the given maximum primitive counts (device dependent; this
\* driver's grow with the number of primitives).
DriverBuildSizes(maxPrimitiveCounts) ==
    [accelerationStructureSize |-> 256 * (1 + SumSeq(maxPrimitiveCounts)),
     buildScratchSize          |-> 128 * (1 + SumSeq(maxPrimitiveCounts))]

\* vkGetAccelerationStructureDeviceAddressKHR: an opaque non-zero address.
DriverStructureAddress(name) == IF name = "blas" THEN 4096 ELSE 8192

\* The statement of a function's statement list the CPU is at.
Statement(fn, order) == IF pc = fn /\ step <= Len(order) THEN order[step] ELSE "none"

\* The CPU moves to the next statement of the list, or on to the function
\* the constructor calls next.
Advance(order, nextFn) ==
    IF step < Len(order)
    THEN pc' = pc /\ step' = step + 1
    ELSE pc' = nextFn /\ step' = 1

Logged(name, op, size) == Append(asLog, [as |-> name, op |-> op, size |-> size])

(***************************************************************************)
(* Raytracer::createBLAS                                                   *)
(***************************************************************************)

\* The scratch buffer is destroyed before the build is recorded.
createBLAS_destroyBeforeBuild ==
    <<"geometry", "sizeQuery", "storage", "create", "scratch",
      "destroyScratch", "build", "wait">>

\* The statements of createBLAS, lines 1042-1170, in their order.
createBLAS_order ==
    <<"geometry", "sizeQuery", "storage", "create", "scratch",
      "build", "wait", "destroyScratch">>

\* The range covers the primitive's indices rather than its triangles.
RangePrimitiveCount_indices(info) == 3 * info.triangleCount

\* Line 1091: blasBuildRangeInfo.primitiveCount = info.triangleCount;
RangePrimitiveCount(info) == info.triangleCount

\* Line 1088: triangleCounts.push_back(info.triangleCount);
QueryPrimitiveCount(info) == info.triangleCount

\* Lines 1060-1096: one geometry, one triangle count and one build range
\* per PrimitiveInfo.
BlasGeometry ==
    /\ Statement("createBLAS", createBLAS_order) = "geometry"
    /\ blasInputs' =
         [geometries |->
              [i \in 1 .. Len(m_primitiveInfos) |->
                  [vertexData   |-> "m_vertexBuffer",
                   vertexStride |-> SizeofVertex,
                   maxVertex    |-> m_primitiveInfos[i].maxVertex,
                   indexData    |-> "m_indexBuffer"]],
          triangleCounts |->
              [i \in 1 .. Len(m_primitiveInfos) |->
                  QueryPrimitiveCount(m_primitiveInfos[i])],
          rangeInfos |->
              [i \in 1 .. Len(m_primitiveInfos) |->
                  [primitiveCount  |-> RangePrimitiveCount(m_primitiveInfos[i]),
                   primitiveOffset |-> m_primitiveInfos[i].indexByteOffset,
                   firstVertex     |-> 0,
                   transformOffset |-> 0]]]
    /\ Advance(createBLAS_order, "createTLAS")
    /\ UNCHANGED <<buildSizes, sizeQueries, structures, builds, gpuBuild,
                   m_blasDeviceAddress, instanceBuffer, asLog>>
    /\ UNCHANGED <<packVars, buffers, frameVarsButPc, textureVars, uploadVars, sbtVars>>

\* Lines 1098-1119: vkGetAccelerationStructureBuildSizesKHR with the
\* geometries and triangleCounts.data().
BlasSizeQuery ==
    /\ Statement("createBLAS", createBLAS_order) = "sizeQuery"
    /\ sizeQueries' = [sizeQueries EXCEPT !["blas"] =
                          [geometryCount      |-> Len(blasInputs.geometries),
                           maxPrimitiveCounts |-> blasInputs.triangleCounts]]
    /\ buildSizes' = [buildSizes EXCEPT !["blas"] =
                          DriverBuildSizes(blasInputs.triangleCounts)]
    /\ asLog' = Logged("blas", "sizeQuery", 0)
    /\ Advance(createBLAS_order, "createTLAS")
    /\ UNCHANGED <<blasInputs, structures, builds, gpuBuild, m_blasDeviceAddress,
                   instanceBuffer>>
    /\ UNCHANGED <<packVars, buffers, frameVarsButPc, textureVars, uploadVars, sbtVars>>

\* Lines 1121-1123: m_blasBuffer of accelerationStructureSize bytes.
BlasStorage ==
    /\ Statement("createBLAS", createBLAS_order) = "storage"
    /\ buffers' = createBuffer(buffers, "m_blasBuffer",
                               buildSizes["blas"].accelerationStructureSize)
    /\ asLog' = Logged("blas", "storage", buildSizes["blas"].accelerationStructureSize)
    /\ Advance(createBLAS_order, "createTLAS")
    /\ UNCHANGED <<blasInputs, buildSizes, sizeQueries, structures, builds, gpuBuild,
                   m_blasDeviceAddress, instanceBuffer>>
    /\ UNCHANGED <<packVars, frameVarsButPc, textureVars, uploadVars, sbtVars>>

\* Lines 1125-1143: the acceleration structure is created in m_blasBuffer
\* and its device address is fetched.
BlasCreate ==
    /\ Statement("createBLAS", createBLAS_order) = "create"
    /\ structures' = [structures EXCEPT !["blas"] =
                         [buffer  |-> "m_blasBuffer",
                          size    |-> buildSizes["blas"].accelerationStructureSize,
                          address |-> DriverStructureAddress("blas")]]
    /\ m_blasDeviceAddress' = DriverStructureAddress("blas")
    /\ asLog' = Logged("blas", "create", buildSizes["blas"].accelerationStructureSize)
    /\ Advance(createBLAS_order, "createTLAS")
    /\ UNCHANGED <<blasInputs, buildSizes, sizeQueries, builds, gpuBuild,
                   instanceBuffer>>
    /\ UNCHANGED <<packVars, buffers, frameVarsButPc, textureVars, uploadVars, sbtVars>>

\* Lines 1145-1157: the scratch buffer of buildScratchSize bytes.
BlasScratch ==
    /\ Statement("createBLAS", createBLAS_order) = "scratch"
    /\ buffers' = createBuffer(buffers, "blasScratchBuffer",
                               buildSizes["blas"].buildScratchSize)
    /\ asLog' = Logged("blas", "scratch", buildSizes["blas"].buildScratchSize)
    /\ Advance(createBLAS_order, "createTLAS")
    /\ UNCHANGED <<blasInputs, buildSizes, sizeQueries, structures, builds, gpuBuild,
                   m_blasDeviceAddress, instanceBuffer>>
    /\ UNCHANGED <<packVars, frameVarsButPc, textureVars, uploadVars, sbtVars>>

\* Lines 1159-1167: the build is recorded into a one-shot command buffer
\* with rangeInfos.data(), and endSingleTimeCommands submits it.
BlasBuild ==
    /\ Statement("createBLAS", createBLAS_order) = "build"
    /\ builds' = [builds EXCEPT !["blas"] =
                     [geometryCount |-> Len(blasInputs.geometries),
                      rangeInfos    |-> blasInputs.rangeInfos,
                      dst           |-> structures["blas"],
                      scratch       |-> "blasScratchBuffer"]]
    /\ gpuBuild' = [gpuBuild EXCEPT !["blas"] = "pending"]
    /\ asLog' = Logged("blas", "build", 0)
    /\ Advance(createBLAS_order, "createTLAS")
    /\ UNCHANGED <<blasInputs, buildSizes, sizeQueries, structures,
                   m_blasDeviceAddress, instanceBuffer>>
    /\ UNCHANGED <<packVars, buffers, frameVarsButPc, textureVars, uploadVars, sbtVars>>

\* Line 1167: endSingleTimeCommands returns.
BlasWait ==
    /\ Statement("createBLAS", createBLAS_order) = "wait"
    /\ endSingleTimeCommandsReturns(gpuBuild["blas"])
    /\ asLog' = Logged("blas", "waitReturned", 0)
    /\ Advance(createBLAS_order, "createTLAS")
    /\ UNCHANGED <<blasInputs, buildSizes, sizeQueries, structures, builds, gpuBuild,
                   m_blasDeviceAddress, instanceBuffer>>
    /\ UNCHANGED <<packVars, buffers, frameVarsButPc, textureVars, uploadVars, sbtVars>>

\* Line 1169: destroyBufferAndFreeMemory(blasScratchBuffer, blasScratchMemory).
BlasDestroyScratch ==
    /\ Statement("createBLAS", createBLAS_order) = "destroyScratch"
    /\ buffers' = destroyBufferAndFreeMemory(buffers, "blasScratchBuffer")
    /\ asLog' = Logged("blas", "destroyScratch", 0)
    /\ Advance(createBLAS_order, "createTLAS")
    /\ UNCHANGED <<blasInputs, buildSizes, sizeQueries, structures, builds, gpuBuild,
                   m_blasDeviceAddress, instanceBuffer>>
    /\ UNCHANGED <<packVars, frameVarsButPc, textureVars, uploadVars, sbtVars>>

\* The GPU finishes a build that was submitted.
GPUBuildComplete ==
    /\ \E a \in {"blas", "tlas"} :
        /\ gpuBuild[a] = "pending"
        /\ gpuBuild' = [gpuBuild EXCEPT ![a] = "done"]
        /\ asLog' = Logged(a, "complete", 0)
    /\ UNCHANGED <<pc, step, blasInputs, buildSizes, sizeQueries, structures, builds,
                   m_blasDeviceAddress, instanceBuffer>>
    /\ UNCHANGED <<packVars, buffers, frameVarsButPc, textureVars, uploadVars, sbtVars>>

(***************************************************************************)
(* Raytracer::createTLAS                                                   *)
(***************************************************************************)

\* The statements of createTLAS, lines 1172-1296, in their order.
createTLAS_order ==
    <<"instance", "sizeQuery", "storage", "create", "scratch",
      "build", "wait", "destroyScratch">>

\* The reference is left at the zero of the value-initialised record.
BlasInstance_noReference(blasDeviceAddress) ==
    [instanceCustomIndex |-> 0, mask |-> 255, accelerationStructureReference |-> 0]

\* Lines 1184-1190: the one instance record.
BlasInstance(blasDeviceAddress) ==
    [instanceCustomIndex            |-> 0,
     mask                           |-> 255,
     accelerationStructureReference |-> blasDeviceAddress]

\* sizeof(VkAccelerationStructureInstanceKHR)
SizeofInstance == 64

\* Line 1241: topLevelMaxPrimitiveCountList = {1}
topLevelMaxPrimitiveCountList == <<1>>

\* Line 1281: tlasBuildRangeInfo.primitiveCount = 1;
TlasRangePrimitiveCount == 1

\* Lines 1176-1205: the instance record is written to a host-visible buffer
\* of sizeof(VkAccelerationStructureInstanceKHR) bytes.
TlasInstance ==
    /\ Statement("createTLAS", createTLAS_order) = "instance"
    /\ buffers' = createBuffer(buffers, "m_blasGeometryInstanceBuffer", SizeofInstance)
    /\ instanceBuffer' = <<BlasInstance(m_blasDeviceAddress)>>
    /\ Advance(createTLAS_order, "updateCommonDescriptorSets")
    /\ UNCHANGED <<blasInputs, buildSizes, sizeQueries, structures, builds, gpuBuild,
                   m_blasDeviceAddress, asLog>>
    /\ UNCHANGED <<packVars, frameVarsButPc, textureVars, uploadVars, sbtVars>>

\* Lines 1207-1243: one instances geometry, the size query with
\* topLevelMaxPrimitiveCountList.
TlasSizeQuery ==
    /\ Statement("createTLAS", createTLAS_order) = "sizeQuery"
    /\ sizeQueries' = [sizeQueries EXCEPT !["tlas"] =
                          [geometryCount      |-> 1,
                           maxPrimitiveCounts |-> topLevelMaxPrimitiveCountList]]
    /\ buildSizes' = [buildSizes EXCEPT !["tlas"] =
                          DriverBuildSizes(topLevelMaxPrimitiveCountList)]
    /\ asLog' = Logged("tlas", "sizeQuery", 0)
    /\ Advance(createTLAS_order, "updateCommonDescriptorSets")
    /\ UNCHANGED <<blasInputs, structures, builds, gpuBuild, m_blasDeviceAddress,
                   instanceBuffer>>
    /\ UNCHANGED <<packVars, buffers, frameVarsButPc, textureVars, uploadVars, sbtVars>>

\* Lines 1245-1247: m_tlasBuffer of accelerationStructureSize bytes.
TlasStorage ==
    /\ Statement("createTLAS", createTLAS_order) = "storage"
    /\ buffers' = createBuffer(buffers, "m_tlasBuffer",
                               buildSizes["tlas"].accelerationStructureSize)
    /\ asLog' = Logged("tlas", "storage", buildSizes["tlas"].accelerationStructureSize)
    /\ Advance(createTLAS_order, "updateCommonDescriptorSets")
    /\ UNCHANGED <<blasInputs, buildSizes, sizeQueries, structures, builds, gpuBuild,
                   m_blasDeviceAddress, instanceBuffer>>
    /\ UNCHANGED <<packVars, frameVarsButPc, textureVars, uploadVars, sbtVars>>

\* Lines 1249-1260: the acceleration structure is created in m_tlasBuffer.
TlasCreate ==
    /\ Statement("createTLAS", createTLAS_order) = "create"
    /\ structures' = [structures EXCEPT !["tlas"] =
                         [buffer  |-> "m_tlasBuffer",
                          size    |-> buildSizes["tlas"].accelerationStructureSize,
                          address |-> DriverStructureAddress("tlas")]]
    /\ asLog' = Logged("tlas", "create", buildSizes["tlas"].accelerationStructureSize)
    /\ Advance(createTLAS_order, "updateCommonDescriptorSets")
    /\ UNCHANGED <<blasInputs, buildSizes, sizeQueries, builds, gpuBuild,
                   m_blasDeviceAddress, instanceBuffer>>
    /\ UNCHANGED <<packVars, buffers, frameVarsButPc, textureVars, uploadVars, sbtVars>>

\* Lines 1262-1274: the scratch buffer of buildScratchSize bytes.
TlasScratch ==
    /\ Statement("createTLAS", createTLAS_order) = "scratch"
    /\ buffers' = createBuffer(buffers, "tlasScratchBuffer",
                               buildSizes["tlas"].buildScratchSize)
    /\ asLog' = Logged("tlas", "scratch", buildSizes["tlas"].buildScratchSize)
    /\ Advance(createTLAS_order, "updateCommonDescriptorSets")
    /\ UNCHANGED <<blasInputs, buildSizes, sizeQueries, structures, builds, gpuBuild,
                   m_blasDeviceAddress, instanceBuffer>>
    /\ UNCHANGED <<packVars, frameVarsButPc, textureVars, uploadVars, sbtVars>>

\* Lines 1276-1293: the build is recorded with the one build range, reading
\* the instance buffer, and endSingleTimeCommands submits it.
TlasBuild ==
    /\ Statement("createTLAS", createTLAS_order) = "build"
    /\ builds' = [builds EXCEPT !["tlas"] =
                     [geometryCount |-> 1,
                      rangeInfos    |-> <<[primitiveCount  |-> TlasRangePrimitiveCount,
                                           primitiveOffset |-> 0,
                                           firstVertex     |-> 0,
                                           transformOffset |-> 0]>>,
                      dst           |-> structures["tlas"],
                      scratch       |-> "tlasScratchBuffer"]]
    /\ gpuBuild' = [gpuBuild EXCEPT !["tlas"] = "pending"]
    /\ asLog' = Logged("tlas", "build", 0)
    /\ Advance(createTLAS_order, "updateCommonDescriptorSets")
    /\ UNCHANGED <<blasInputs, buildSizes, sizeQueries, structures,
                   m_blasDeviceAddress, instanceBuffer>>
    /\ UNCHANGED <<packVars, buffers, frameVarsButPc, textureVars, uploadVars, sbtVars>>

\* Line 1293: endSingleTimeCommands returns.
TlasWait ==
    /\ Statement("createTLAS", createTLAS_order) = "wait"
    /\ endSingleTimeCommandsReturns(gpuBuild["tlas"])
    /\ asLog' = Logged("tlas", "waitReturned", 0)
    /\ Advance(createTLAS_order, "updateCommonDescriptorSets")
    /\ UNCHANGED <<blasInputs, buildSizes, sizeQueries, structures, builds, gpuBuild,
                   m_blasDeviceAddress, instanceBuffer>>
    /\ UNCHANGED <<packVars, buffers, frameVarsButPc, textureVars, uploadVars, sbtVars>>

\* Line 1295: destroyBufferAndFreeMemory(tlasScratchBuffer, tlasScratchMemory).
TlasDestroyScratch ==
    /\ Statement("createTLAS", createTLAS_order) = "destroyScratch"
    /\ buffers' = destroyBufferAndFreeMemory(buffers, "tlasScratchBuffer")
    /\ asLog' = Logged("tlas", "destroyScratch", 0)
    /\ Advance(createTLAS_order, "updateCommonDescriptorSets")
    /\ UNCHANGED <<blasInputs, buildSizes, sizeQueries, structures, builds, gpuBuild,
                   m_blasDeviceAddress, instanceBuffer>>
    /\ UNCHANGED <<packVars, frameVarsButPc, textureVars, uploadVars, sbtVars>>

(***************************************************************************)
(* Staged uploads: createVertexAndIndexBuffer (lines 704-756),             *)
(* createMaterialIndexBuffer, updateMaterialIndexDescriptorSet             *)
(***************************************************************************)

\* sizeof(glm::uvec4)
SizeofUvec4 == 16

\* Raytracer.cpp: struct MaterialInfo holds four int; sizeof(MaterialInfo)
SizeofMaterialInfo == 16

\* Byte o of the CPU array of that name.
SourceByte(array, o) == [array |-> array, at |-> o]

\* A byte nobody has written: of fresh device memory, or read from beyond
\* an array or from a destroyed buffer.
UndefinedByte == [array |-> "undefined", at |-> 0]

\* The bytes of the CPU array of the given name and size.
SourceBytes(array, size) == [o \in 1 .. size |-> SourceByte(array, o - 1)]

\* createStagingBuffer(device, physicalDevice, data, size): a host-visible
\* buffer of size bytes that holds data[0, size).
createStagingBuffer(staging, id, data, size) ==
    (id :> [o \in 1 .. size |-> IF o <= Len(data) THEN data[o] ELSE UndefinedByte])
        @@ staging

\* releaseStagingBuffer: the staging buffer no longer exists.
releaseStagingBuffer(staging, id) == [n \in (DOMAIN staging) \ {id} |-> staging[n]]

\* The bytes of a destination after vkCmdCopyBuffer with the given region
\* has executed.
CopiedBytes(srcBytes, dstBytes, region) ==
    [o \in 1 .. Len(dstBytes) |->
        IF (o - 1) >= region.dstOffset /\ (o - 1) < region.dstOffset + region.size
        THEN LET from == o - region.dstOffset + region.srcOffset
             IN  IF from \in DOMAIN srcBytes THEN srcBytes[from] ELSE UndefinedByte
        ELSE dstBytes[o]]

\* Lines 704-706 and 708-723: the vertex upload.
VertexUpload ==
    [data        |-> SourceBytes("vertexData", vertexData),
     stagingSize |-> m_vertexDataSize,
     dst         |-> "m_vertexBuffer",
     dstSize     |-> m_vertexDataSize,
     region      |-> [srcOffset |-> 0, dstOffset |-> 0, size |-> m_vertexDataSize]]

\* Lines 704-706 and 724-739: the index upload; indexData has
\* m_indexDataSize bytes (line 646).
IndexUpload ==
    [data        |-> SourceBytes("indexData", m_indexDataSize),
     stagingSize |-> m_indexDataSize,
     dst         |-> "m_indexBuffer",
     dstSize     |-> m_indexDataSize,
     region      |-> [srcOffset |-> 0, dstOffset |-> 0, size |-> m_indexDataSize]]

\* Line 744: m_primitiveIndexBuffer = createBuffer(m_device, primitiveIndicesSize, usage)
PrimitiveIndexBufferSize(primitiveIndicesSize) == primitiveIndicesSize

\* Lines 704-706 and 740-756: the primitive index upload; primitiveIndices
\* has m_triangleCount elements (line 683).
PrimitiveIndexUpload ==
    LET primitiveIndicesSize == m_triangleCount * SizeofUvec4
    IN  [data        |-> SourceBytes("primitiveIndices", primitiveIndicesSize),
         stagingSize |-> primitiveIndicesSize,
         dst         |-> "m_primitiveIndexBuffer",
         dstSize     |-> PrimitiveIndexBufferSize(primitiveIndicesSize),
         region      |-> [srcOffset |-> 0, dstOffset |-> 0, size |-> primitiveIndicesSize]]

\* The copy covers one record less than the material array.
MaterialCopySize_short(materialInfoCount) ==
    IF materialInfoCount = 0 THEN 0 ELSE (materialInfoCount - 1) * SizeofMaterialInfo

\* Line 1445: copyRegion.size = materialInfo.size() * sizeof(materialInfo[0])
MaterialCopySize(materialInfoCount) == materialInfoCount * SizeofMaterialInfo

\* Lines 1423-1448: the material info upload; materialInfo has one element
\* per primitive; the destination is the buffer createMaterialIndexBuffer
\* made.
MaterialInfoUpload ==
    LET count == Len(m_model.primitives)
    IN  [data        |-> SourceBytes("materialInfo", count * SizeofMaterialInfo),
         stagingSize |-> MaterialCopySize(count),
         dst         |-> "m_materialIndexBuffer",
         dstSize     |-> buffers["m_materialIndexBuffer"],
         region      |-> [srcOffset |-> 0, dstOffset |-> 0,
                          size |-> MaterialCopySize(count)]]

\* The staging buffer is released before the copy is recorded.
bufferUpload_releaseBeforeCopy ==
    <<"createStaging", "createDestination", "release", "copySubmit", "wait">>

\* The statements of one upload block of createVertexAndIndexBuffer
\* (lines 708-723, 724-739, 740-756), in their order.
bufferUpload_order ==
    <<"createStaging", "createDestination", "copySubmit", "wait", "release">>

\* The statements of the upload of updateMaterialIndexDescriptorSet
\* (lines 1448-1454), in their order.
materialUpload_order == <<"createStaging", "copySubmit", "wait", "release">>

\* The images of the small models: at most MaxImages images.
MaxImages == 2

\* Bytes of one texel of VK_FORMAT_R8G8B8A8_UNORM (line 466).
TexelSize == 4

\* The bindings createTextures leaves behind for images of one texel each:
\* image i at offset i times the size of one texel.
OneSizeBindings(imageCount) ==
    [i \in 1 .. imageCount |-> [image |-> i, memoryOffset |-> (i - 1) * TexelSize]]

\* Model::Image as the loader leaves it: width, height and data.size().
Image(width, height) ==
    [width |-> width, height |-> height, dataSize |-> width * height * TexelSize]

SmallImages == {Image(1, 1), Image(2, 1)}

LoadableImageLists == UNION {[1 .. n -> SmallImages] : n \in 0 .. MaxImages}

\* Names for images[i].data and m_images[i], i = 0, 1, ...
ImageDataNames == <<"images[0].data", "images[1].data", "images[2].data", "images[3].data">>
ImageHandleNames == <<"m_images[0]", "m_images[1]", "m_images[2]", "m_images[3]">>

\* An access m_images[index] to the vector as it is now.
ImageAccess(index) == [index |-> index, size |-> Len(m_images)]

\* Lines 516-543: the upload of image i (k = i + 1): the staging buffer
\* holds image.data, the copy region starts at buffer offset 0 and covers
\* the image's extent.
TextureUpload(k) ==
    [data        |-> SourceBytes(ImageDataNames[k], images[k].dataSize),
     stagingSize |-> images[k].dataSize,
     dst         |-> ImageHandleNames[k],
     dstSize     |-> images[k].width * images[k].height * TexelSize,
     region      |-> [srcOffset |-> 0, dstOffset |-> 0,
                      size |-> images[k].width * images[k].height * TexelSize]]

\* The statements of one iteration of the second loop of createTextures
\* (lines 510-568), in their order.
textureUpload_order ==
    <<"bind", "createStaging", "copySubmit", "wait", "release", "mipmaps", "view">>

\* The upload blocks of the function the CPU is in, in their order.
Uploads ==
    IF pc = "createVertexAndIndexBuffer:uploads"
    THEN <<VertexUpload, IndexUpload, PrimitiveIndexUpload>>
    ELSE IF pc = "updateMaterialIndexDescriptorSet"
    THEN <<MaterialInfoUpload>>
    ELSE IF pc = "createTextures:images"
    THEN [k \in 1 .. Len(images) |-> TextureUpload(k)]
    ELSE <<>>

UploadOrder ==
    IF pc = "createVertexAndIndexBuffer:uploads" THEN bufferUpload_order
    ELSE IF pc = "updateMaterialIndexDescriptorSet" THEN materialUpload_order
    ELSE IF pc = "createTextures:images" THEN textureUpload_order
    ELSE <<>>

\* The function the constructor runs after the uploads of this one.
AfterUploads ==
    IF pc = "createVertexAndIndexBuffer:uploads"
    THEN "createTexturesDescriptorSetLayoutAndAllocate"
    ELSE IF pc = "createTextures:images" THEN "createVertexAndIndexBuffer"
    ELSE "updateTexturesDescriptorSets"

UploadStatement ==
    IF uploadIndex <= Len(Uploads) /\ step <= Len(UploadOrder)
    THEN UploadOrder[step]
    ELSE "none"

\* The CPU moves to the next statement of the block, the next block, or
\* the next function.
UploadAdvance ==
    IF step < Len(UploadOrder)
    THEN pc' = pc /\ step' = step + 1 /\ uploadIndex' = uploadIndex
    ELSE IF uploadIndex < Len(Uploads)
    THEN pc' = pc /\ step' = 1 /\ uploadIndex' = uploadIndex + 1
    ELSE pc' = AfterUploads /\ step' = 1 /\ uploadIndex' = 1

UploadLogged(op, size) ==
    Append(uploadLog, [fn |-> pc, upload |-> uploadIndex, op |-> op, size |-> size])

\* createStagingBuffer(m_device, physicalDevice, data, size).
UploadCreateStaging ==
    /\ UploadStatement = "createStaging"
    /\ stagingBuffers' = createStagingBuffer(stagingBuffers, <<pc, uploadIndex>>,
                                             Uploads[uploadIndex].data,
                                             Uploads[uploadIndex].stagingSize)
    /\ uploadLog' = UploadLogged("createStaging", Uploads[uploadIndex].stagingSize)
    /\ UploadAdvance
    /\ UNCHANGED <<bufferBytes, pendingCopy, buffers>>
    /\ UNCHANGED <<packVars, asVarsButStep, frameVarsButPc, textureVars, sbtVars>>

\* createBuffer and allocateAndBindMemory for the destination.
UploadCreateDestination ==
    /\ UploadStatement = "createDestination"
    /\ buffers' = createBuffer(buffers, Uploads[uploadIndex].dst,
                               Uploads[uploadIndex].dstSize)
    /\ bufferBytes' = (Uploads[uploadIndex].dst :>
                          [o \in 1 .. Uploads[uploadIndex].dstSize |-> UndefinedByte])
                      @@ bufferBytes
    /\ UploadAdvance
    /\ UNCHANGED <<stagingBuffers, pendingCopy, uploadLog>>
    /\ UNCHANGED <<packVars, asVarsButStep, frameVarsButPc, textureVars, sbtVars>>

\* beginSingleTimeCommands, vkCmdCopyBuffer with copyRegion, and the submit
\* of endSingleTimeCommands.
UploadCopySubmit ==
    /\ UploadStatement = "copySubmit"
    /\ pendingCopy' = [src       |-> <<pc, uploadIndex>>,
                       dst       |-> Uploads[uploadIndex].dst,
                       srcOffset |-> Uploads[uploadIndex].region.srcOffset,
                       dstOffset |-> Uploads[uploadIndex].region.dstOffset,
                       size      |-> Uploads[uploadIndex].region.size,
                       state     |-> "pending"]
    /\ uploadLog' = UploadLogged("copySubmit", Uploads[uploadIndex].region.size)
    /\ UploadAdvance
    /\ UNCHANGED <<stagingBuffers, bufferBytes, buffers>>
    /\ UNCHANGED <<packVars, asVarsButStep, frameVarsButPc, textureVars, sbtVars>>

\* The GPU executes the submitted copy.
GPUCopyComplete ==
    /\ pendingCopy.state = "pending"
    /\ bufferBytes' =
           [bufferBytes EXCEPT ![pendingCopy.dst] =
               CopiedBytes(IF pendingCopy.src \in DOMAIN stagingBuffers
                           THEN stagingBuffers[pendingCopy.src]
                           ELSE <<>>,
                           bufferBytes[pendingCopy.dst], pendingCopy)]
    /\ pendingCopy' = [pendingCopy EXCEPT !.state = "done"]
    /\ uploadLog' = UploadLogged("copyComplete", pendingCopy.size)
    /\ UNCHANGED <<pc, step, uploadIndex, stagingBuffers, buffers>>
    /\ UNCHANGED <<packVars, asVarsButStep, frameVarsButPc, textureVars, sbtVars>>

\* endSingleTimeCommands returns.
UploadWait ==
    /\ UploadStatement = "wait"
    /\ endSingleTimeCommandsReturns(pendingCopy.state)
    /\ pendingCopy' = NoCopy
    /\ uploadLog' = UploadLogged("waitReturned", 0)
    /\ UploadAdvance
    /\ UNCHANGED <<stagingBuffers, bufferBytes, buffers>>
    /\ UNCHANGED <<packVars, asVarsButStep, frameVarsButPc, textureVars, sbtVars>>

\* releaseStagingBuffer(m_device, stagingBuffer).
UploadReleaseStaging ==
    /\ UploadStatement = "release"
    /\ stagingBuffers' = releaseStagingBuffer(stagingBuffers, <<pc, uploadIndex>>)
    /\ uploadLog' = UploadLogged("release", 0)
    /\ UploadAdvance
    /\ UNCHANGED <<bufferBytes, pendingCopy, buffers>>
    /\ UNCHANGED <<packVars, asVarsButStep, frameVarsButPc, textureVars, sbtVars>>

\* Raytracer::createMaterialIndexBuffer, lines 1019-1027.
createMaterialIndexBuffer ==
    /\ pc = "createMaterialIndexBuffer"
    /\ buffers' = createBuffer(buffers, "m_materialIndexBuffer",
                               SizeofMaterialInfo * Len(m_model.primitives))
    /\ bufferBytes' = ("m_materialIndexBuffer" :>
                          [o \in 1 .. (SizeofMaterialInfo * Len(m_model.primitives)) |->
                              UndefinedByte])
                      @@ bufferBytes
    /\ pc' = "createBLAS"
    /\ UNCHANGED <<uploadIndex, stagingBuffers, pendingCopy, uploadLog>>
    /\ UNCHANGED <<packVars, asVars, frameVarsButPc, textureVars, sbtVars>>

\* Raytracer::updateCommonDescriptorSets, lines 1298-1398: descriptor writes.
updateCommonDescriptorSets ==
    /\ pc = "updateCommonDescriptorSets"
    /\ pc' = "updateMaterialIndexDescriptorSet"
    /\ UNCHANGED <<packVars, buffers, asVars, frameVarsButPc, textureVars, sbtVars, uploadVars>>

(***************************************************************************)
(* Raytracer::createTextures, createTexturesDescriptorSetLayoutAndAllocate *)
(* and updateTexturesDescriptorSets                                        *)
(***************************************************************************)

\* Lines 461-466: m_images and m_imageViews are resized to the image count.
TexResize ==
    /\ pc = "createTextures"
    /\ m_images' = [i \in 1 .. Len(images) |-> "null"]
    /\ m_imageViews' = [i \in 1 .. Len(images) |-> "null"]
    /\ textureI' = 0
    /\ pc' = IF Len(images) > 0 THEN "createTextures:createImages"
             ELSE "createTextures:memory"
    /\ UNCHANGED <<images, m_imageMemory, vectorAccesses, uncheckedFailures,
                   texturesLayoutCount, texturesWrites>>
    /\ UNCHANGED <<packVars, buffers, asVars, frameVarsButPc, sbtVars, uploadVars>>

\* Lines 468-492: one iteration of the first loop: VK_CHECK(vkCreateImage).
TexCreateImage ==
    /\ pc = "createTextures:createImages"
    /\ textureI < Len(images)
    /\ \E result \in VkResults :
        IF VK_CHECK(result)
        THEN /\ m_images' = [m_images EXCEPT ![textureI + 1] = "created"]
             /\ vectorAccesses' = vectorAccesses \cup {ImageAccess(textureI)}
             /\ bufferBytes' =
                    (ImageHandleNames[textureI + 1] :>
                        [o \in 1 .. (images[textureI + 1].width
                                        * images[textureI + 1].height * TexelSize) |->
                            UndefinedByte])
                    @@ bufferBytes
             /\ textureI' = textureI + 1
             /\ pc' = IF textureI + 1 < Len(images) THEN pc ELSE "createTextures:memory"
        ELSE /\ pc' = "aborted"
             /\ UNCHANGED <<m_images, vectorAccesses, bufferBytes, textureI>>
    /\ UNCHANGED <<images, m_imageViews, m_imageMemory, uncheckedFailures,
                   texturesLayoutCount, texturesWrites>>
    /\ UNCHANGED <<uploadIndex, stagingBuffers, pendingCopy, uploadLog>>
    /\ UNCHANGED <<packVars, buffers, asVars, frameVarsButPc, sbtVars>>

\* vkGetImageMemoryRequirements of an image of the given extent: the bytes
\* of its texels (a driver may ask for more, never for less).
ImageMemoryRequirement(image) == image.width * image.height * TexelSize

\* vkGetImageMemoryRequirements: the bytes one image needs.  For a handle
\* read from beyond the vector the driver is handed garbage; whatever size
\* it reports is multiplied by an image count of 0.
DriverImageMemorySize ==
    IF Len(images) > 0 THEN images[1].width * images[1].height * TexelSize ELSE 0

\* Lines 494-508: the memory requirements of m_images[0], CHECK that a
\* memory type was found, VK_CHECK(vkAllocateMemory) of size x image count.
\* With no image, m_images[0] is an access outside the empty vector, which
\* is undefined behaviour; here it goes unnoticed.
TexMemory ==
    /\ pc = "createTextures:memory"
    /\ vectorAccesses' = vectorAccesses \cup {ImageAccess(0)}
    /\ \E found \in BOOLEAN, result \in VkResults :
        IF found /\ VK_CHECK(result)
        THEN /\ m_imageMemory' = DriverImageMemorySize * Len(images)
             /\ pc' = IF Len(images) > 0 THEN "createTextures:images"
                      ELSE "createVertexAndIndexBuffer"
        ELSE /\ m_imageMemory' = m_imageMemory
             /\ pc' = "aborted"
    /\ UNCHANGED <<images, m_images, m_imageViews, textureI, uncheckedFailures,
                   texturesLayoutCount, texturesWrites>>
    /\ UNCHANGED <<packVars, buffers, asVars, frameVarsButPc, sbtVars, uploadVars>>

\* Line 494: the other outcome of reading m_images[0] of an empty vector:
\* the process faults.
TexMemoryFault ==
    /\ pc = "createTextures:memory"
    /\ Len(m_images) = 0
    /\ vectorAccesses' = vectorAccesses \cup {ImageAccess(0)}
    /\ pc' = "crashed"
    /\ UNCHANGED <<images, m_images, m_imageViews, m_imageMemory, textureI,
                   uncheckedFailures, texturesLayoutCount, texturesWrites>>
    /\ UNCHANGED <<packVars, buffers, asVars, frameVarsButPc, sbtVars, uploadVars>>

\* Line 504: singleImageSize = memRequirements.size, the size the driver
\* reported for m_images[0].
singleImageSize == DriverImageMemorySize

\* Line 512: vkBindImageMemory(m_device, m_images[i], m_imageMemory,
\* i * singleImageSize); its result is not looked at.
TexBind ==
    /\ pc = "createTextures:images"
    /\ UploadStatement = "bind"
    /\ vectorAccesses' = vectorAccesses \cup {ImageAccess(uploadIndex - 1)}
    /\ \E result \in VkResults :
        uncheckedFailures' =
            uncheckedFailures \cup FailedCalls(<<"vkBindImageMemory">>, <<result>>)
    /\ imageBindings' =
           Append(imageBindings,
                  [image        |-> uploadIndex,
                   memoryOffset |-> (uploadIndex - 1) * singleImageSize])
    /\ UploadAdvance
    /\ UNCHANGED <<images, m_images, m_imageViews, m_imageMemory, textureI,
                   texturesLayoutCount, texturesWrites>>
    /\ UNCHANGED <<stagingBuffers, bufferBytes, pendingCopy, uploadLog>>
    /\ UNCHANGED <<packVars, buffers, asVarsButStep, sbtVars>>
    /\ UNCHANGED <<m_frameIndex, m_imageIndex, m_inFlightFences,
                   m_imageAvailableSemaphores, m_renderFinishedSemaphores,
                   m_commandBuffers, queue, presents, frame, acquireCount,
                   lastAcquire, lastSubmit, lastPresent, failedCall,
                   capabilities, m_swapchain, camera, uniformBlock, alive, destroyLog,
                   windowVars, gltfModel, m_descriptorPool, descriptorSets, materialInfo>>

\* Line 556: createMipmaps(m_images[i], mipLevelCount, imageResolution).
TexMipmaps ==
    /\ pc = "createTextures:images"
    /\ UploadStatement = "mipmaps"
    /\ vectorAccesses' = vectorAccesses \cup {ImageAccess(uploadIndex - 1)}
    /\ UploadAdvance
    /\ UNCHANGED <<images, m_images, m_imageViews, m_imageMemory, textureI,
                   uncheckedFailures, texturesLayoutCount, texturesWrites>>
    /\ UNCHANGED <<stagingBuffers, bufferBytes, pendingCopy, uploadLog>>
    /\ UNCHANGED <<packVars, buffers, asVarsButStep, frameVarsButPc, sbtVars>>

\* Lines 558-567: VK_CHECK(vkCreateImageView) of m_images[i].
TexView ==
    /\ pc = "createTextures:images"
    /\ UploadStatement = "view"
    /\ vectorAccesses' = vectorAccesses \cup {ImageAccess(uploadIndex - 1)}
    /\ \E result \in VkResults :
        IF VK_CHECK(result)
        THEN /\ m_imageViews' = [m_imageViews EXCEPT ![uploadIndex] = "created"]
             /\ UploadAdvance
        ELSE /\ pc' = "aborted"
             /\ UNCHANGED <<m_imageViews, step, uploadIndex>>
    /\ UNCHANGED <<images, m_images, m_imageMemory, textureI, uncheckedFailures,
                   texturesLayoutCount, texturesWrites>>
    /\ UNCHANGED <<stagingBuffers, bufferBytes, pendingCopy, uploadLog>>
    /\ UNCHANGED <<packVars, buffers, asVarsButStep, frameVarsButPc, sbtVars>>

\* Lines 876-879: the one binding of the textures layout.
TexturesBindings(imageCount) ==
    <<[descriptorType |-> "COMBINED_IMAGE_SAMPLER", descriptorCount |-> imageCount]>>

\* Lines 874-900: the layout's one binding has ui32Size(m_images)
\* descriptors; VK_CHECK of the layout creation and of the allocation.
createTexturesDescriptorSetLayoutAndAllocate ==
    /\ pc = "createTexturesDescriptorSetLayoutAndAllocate"
    /\ \E layoutResult \in VkResults, allocateResult \in VkResults :
        IF VK_CHECK(layoutResult) /\ VK_CHECK(allocateResult)
        THEN /\ texturesLayoutCount' = Len(m_images)
             /\ descriptorSets' =
                    Append(descriptorSets,
                           [set      |-> "m_texturesDescriptorSet",
                            bindings |-> TexturesBindings(Len(m_images))])
             /\ pc' = "createMaterialIndexBuffer"
        ELSE /\ texturesLayoutCount' = texturesLayoutCount
             /\ descriptorSets' = descriptorSets
             /\ pc' = "aborted"
    /\ UNCHANGED <<images, m_images, m_imageViews, m_imageMemory, textureI,
                   vectorAccesses, uncheckedFailures, texturesWrites>>
    /\ UNCHANGED <<packVars, buffers, asVars, sbtVars, uploadVars>>
    /\ UNCHANGED <<m_frameIndex, m_imageIndex, m_inFlightFences,
                   m_imageAvailableSemaphores, m_renderFinishedSemaphores,
                   m_commandBuffers, queue, presents, frame, acquireCount,
                   lastAcquire, lastSubmit, lastPresent, failedCall,
                   capabilities, m_swapchain, camera, uniformBlock, alive, destroyLog,
                   windowVars, gltfModel, m_descriptorPool, materialInfo,
                   imageBindings>>

\* Lines 1457-1480: one VkDescriptorImageInfo per image, and one write of
\* ui32Size(imageInfos) descriptors to m_texturesDescriptorSet.
updateTexturesDescriptorSets ==
    /\ pc = "updateTexturesDescriptorSets"
    /\ texturesWrites' = Append(texturesWrites, Len(m_images))
    /\ pc' = "createShaderBindingTable"
    /\ UNCHANGED <<images, m_images, m_imageViews, m_imageMemory, textureI,
                   vectorAccesses, uncheckedFailures, texturesLayoutCount>>
    /\ UNCHANGED <<packVars, buffers, asVars, frameVarsButPc, sbtVars, uploadVars>>

(***************************************************************************)
(* Raytracer construction                                                  *)
(***************************************************************************)

\* createTextures (line 65) has returned for a model of one image: the
\* image, its memory and its view exist and the image holds its data.
OneTextureCreated ==
    /\ images = <<Image(1, 1)>>
    /\ m_images = <<"created">>
    /\ m_imageViews = <<"created">>
    /\ m_imageMemory = TexelSize
    /\ imageBindings = OneSizeBindings(1)
    /\ textureI = 1
    /\ vectorAccesses = {[index |-> 0, size |-> 1]}
    /\ uncheckedFailures = {}
    /\ texturesLayoutCount = -1
    /\ texturesWrites = <<>>
    /\ bufferBytes = (ImageHandleNames[1] :> SourceBytes(ImageDataNames[1], TexelSize))

\* Raytracer::Raytracer up to createVertexAndIndexBuffer: loadModel has
\* loaded some model.
InitInit ==
    /\ pc = "createVertexAndIndexBuffer"
    /\ m_model \in {Model(primitives) : primitives \in LoadablePrimitiveLists}
    /\ m_vertexDataSize = 0
    /\ m_indexDataSize = 0
    /\ vertexData = 0
    /\ indices = <<>>
    /\ indexStores = <<>>
    /\ vertexCopies = <<>>
    /\ packNext = 0
    /\ indexCounter = 0
    /\ indexCounterOffset = 0
    /\ vertexByteOffset = 0
    /\ indexByteOffset = 0
    /\ m_primitiveInfos = <<>>
    /\ m_triangleCount = 0
    /\ buffers = <<>>
    /\ ASInitial
    /\ SBTUnused
    /\ uploadIndex = 1
    /\ stagingBuffers = <<>>
    /\ pendingCopy = NoCopy
    /\ uploadLog = <<>>
    /\ OneTextureCreated
    /\ FrameUnused
    /\ ContextUnused

NextInit ==
    \/ BeginPack
    \/ PackPrimitive
    \/ PackPrimitiveFault
    \/ FinishPack
    \/ BlasGeometry
    \/ BlasSizeQuery
    \/ BlasStorage
    \/ BlasCreate
    \/ BlasScratch
    \/ BlasBuild
    \/ BlasWait
    \/ BlasDestroyScratch
    \/ GPUBuildComplete
    \/ TlasInstance
    \/ TlasSizeQuery
    \/ TlasStorage
    \/ TlasCreate
    \/ TlasScratch
    \/ TlasBuild
    \/ TlasWait
    \/ TlasDestroyScratch
    \/ UploadCreateStaging
    \/ UploadCreateDestination
    \/ UploadCopySubmit
    \/ GPUCopyComplete
    \/ UploadWait
    \/ UploadReleaseStaging
    \/ createTexturesDescriptorSetLayoutAndAllocate
    \/ createMaterialIndexBuffer
    \/ updateCommonDescriptorSets
    \/ updateTexturesDescriptorSets

SpecInit == InitInit /\ [][NextInit]_vars

\* Raytracer::Raytracer from createTextures (line 65): loadModel has loaded
\* some model of at most one primitive, with some images.
InitConstruct ==
    /\ pc = "createTextures"
    /\ m_model \in {Model(primitives) :
                        primitives \in {p \in LoadablePrimitiveLists : Len(p) <= 1}}
    /\ m_vertexDataSize = 0
    /\ m_indexDataSize = 0
    /\ vertexData = 0
    /\ indices = <<>>
    /\ indexStores = <<>>
    /\ vertexCopies = <<>>
    /\ packNext = 0
    /\ indexCounter = 0
    /\ indexCounterOffset = 0
    /\ vertexByteOffset = 0
    /\ indexByteOffset = 0
    /\ m_primitiveInfos = <<>>
    /\ m_triangleCount = 0
    /\ buffers = <<>>
    /\ ASInitial
    /\ SBTUnused
    /\ UploadInitial
    /\ images \in LoadableImageLists
    /\ TexturesInitial
    /\ FrameUnused
    /\ ContextUnused

NextConstruct ==
    \/ TexResize
    \/ TexCreateImage
    \/ TexMemory
    \/ TexMemoryFault
    \/ TexBind
    \/ TexMipmaps
    \/ TexView
    \/ NextInit

SpecConstruct == InitConstruct /\ [][NextConstruct]_vars

(***************************************************************************)
(* Claims about createVertexAndIndexBuffer, createBLAS and createTLAS      *)
(***************************************************************************)

\* The primitives whose inner loop has run.
PackedCount == IF packNext = 0 THEN 0 ELSE packNext - 1

\* The positions of the CPU thread in this part of the constructor, in order.
ConstructorPositions ==
    <<"createTextures", "createTextures:createImages", "createTextures:memory",
      "createTextures:images",
      "createVertexAndIndexBuffer", "pack", "createVertexAndIndexBuffer:uploads",
      "createTexturesDescriptorSetLayoutAndAllocate",
      "createMaterialIndexBuffer", "createBLAS", "createTLAS",
      "updateCommonDescriptorSets", "updateMaterialIndexDescriptorSet",
      "updateTexturesDescriptorSets", "createShaderBindingTable">>

\* The CPU thread is past the given position.
Past(position) ==
    \E i, j \in DOMAIN ConstructorPositions :
        /\ ConstructorPositions[i] = position
        /\ ConstructorPositions[j] = pc
        /\ i < j

PackingDone == Past("pack")

\* The vertex count of the primitives before the n-th.
PrecedingVertices(n) ==
    SumSeq([i \in 1 .. (n - 1) |-> m_model.primitives[i].vertices])

\* The index count of the primitives before the n-th.
PrecedingIndices(n) ==
    SumSeq([i \in 1 .. (n - 1) |-> Len(m_model.primitives[i].indices)])

TotalPackedVertexCount == PrecedingVertices(Len(m_model.primitives) + 1)

TotalIndexCount == PrecedingIndices(Len(m_model.primitives) + 1)

\* C8: for every primitive whose indices have been packed, the value stored
\* for its k-th index is that local index plus the vertex count of all
\* primitives before it, and is at least 0 and below the total vertex count
\* of the model (every local index of a loadable primitive being below the
\* primitive's vertex count).
C8_PackedIndexIsLocalPlusPreceding ==
    \A n \in 1 .. PackedCount :
        \A k \in 1 .. Len(m_model.primitives[n].indices) :
            LET store == indexStores[PrecedingIndices(n) + k]
            IN  /\ m_model.primitives[n].indices[k] < m_model.primitives[n].vertices
                /\ store.val = m_model.primitives[n].indices[k] + PrecedingVertices(n)
                /\ 0 <= store.val
                /\ store.val < TotalPackedVertexCount

\* A model of two primitives has been packed and an index of the second
\* primitive was stored with the first primitive's vertex count added.
C8_Witness ==
    /\ PackingDone
    /\ Len(m_model.primitives) = 2
    /\ Len(m_model.primitives[2].indices) > 0
    /\ indexStores[PrecedingIndices(2) + 1].val
           = m_model.primitives[2].indices[1] + m_model.primitives[1].vertices
    /\ indexStores[PrecedingIndices(2) + 1].val > m_model.primitives[2].indices[1]

\* C9: no store to the packed index array and no copy to the packed vertex
\* array falls outside the array; and once the model is packed the index
\* array has as many entries as the primitives have indices together (450
\* for primitives of 100 and 50 triangles), every entry has been written
\* exactly once, and there is one primitive record per primitive, in input
\* order, with increasing cumulative offsets.
C9_PackedArraySizedAndWrittenOnce ==
    /\ pc # "crashed"
    /\ \A j \in DOMAIN indexStores : InBounds(indexStores[j], indices)
    /\ \A j \in DOMAIN vertexCopies : CopyInBounds(vertexCopies[j], vertexData)
    /\ PackingDone =>
        /\ VectorSize(indices) = TotalIndexCount
        /\ (m_model.primitives = ScenarioPrimitives) =>
               VectorSize(indices) = (100 + 50) * 3
        /\ \A i \in DOMAIN indices :
               Cardinality({j \in DOMAIN indexStores : indexStores[j].pos = i}) = 1
        /\ Len(m_primitiveInfos) = Len(m_model.primitives)
        /\ \A n \in DOMAIN m_primitiveInfos :
               /\ m_primitiveInfos[n] =
                      PrimitiveInfo(m_model.primitives[n], SizeofIndex * PrecedingIndices(n))
               /\ n > 1 => m_primitiveInfos[n].indexByteOffset
                               >= m_primitiveInfos[n - 1].indexByteOffset

\* The upload block a logged step belongs to.
UploadOf(fn, k) ==
    IF fn = "createVertexAndIndexBuffer:uploads"
    THEN (IF k = 1 THEN VertexUpload ELSE IF k = 2 THEN IndexUpload
          ELSE PrimitiveIndexUpload)
    ELSE MaterialInfoUpload

\* The steps logged for one upload block, in the order they happened.
StepsOf(fn, k) == SelectSeq(uploadLog, LAMBDA e : e.fn = fn /\ e.upload = k)

BufferUploadFunctions ==
    {"createVertexAndIndexBuffer:uploads", "updateMaterialIndexDescriptorSet"}

\* C14: for every buffer upload (vertex, index, primitive index, material
\* info) whose one-shot copy has been waited for, with S the size of the CPU
\* array uploaded: the staging buffer, the copy and the destination buffer
\* all have S bytes, the copy's source and destination offsets are 0, and
\* the destination holds exactly the S bytes of the CPU array.
C14_UploadedBytesEqualSource ==
    \A n \in DOMAIN uploadLog :
        (uploadLog[n].op = "waitReturned" /\ uploadLog[n].fn \in BufferUploadFunctions) =>
            LET U == UploadOf(uploadLog[n].fn, uploadLog[n].upload)
                steps == StepsOf(uploadLog[n].fn, uploadLog[n].upload)
                S == Len(U.data)
            IN  /\ steps[1].op = "createStaging" /\ steps[1].size = S
                /\ steps[2].op = "copySubmit" /\ steps[2].size = S
                /\ U.region.srcOffset = 0 /\ U.region.dstOffset = 0
                /\ buffers[U.dst] = S
                /\ Len(bufferBytes[U.dst]) = S
                /\ \A o \in 1 .. S : bufferBytes[U.dst][o] = SourceByte(U.data[1].array, o - 1)

\* The material info of two primitives, 32 bytes, has been uploaded.
C14_Witness ==
    /\ pc = "updateTexturesDescriptorSets"
    /\ Len(m_model.primitives) = 2
    /\ buffers["m_materialIndexBuffer"] = 32
    /\ bufferBytes["m_materialIndexBuffer"] = SourceBytes("materialInfo", 32)
    /\ \E n \in DOMAIN uploadLog :
           /\ uploadLog[n].fn = "updateMaterialIndexDescriptorSet"
           /\ uploadLog[n].op = "waitReturned"

\* The bytes of m_imageMemory an image needs from the offset it is bound at.
BoundRange(binding) ==
    [first |-> binding.memoryOffset,
     last  |-> binding.memoryOffset + ImageMemoryRequirement(images[binding.image]) - 1]

\* C30: every texture image is bound to a range of m_imageMemory that lies
\* inside the allocation, holds the image's own memory requirement, and
\* overlaps the range of no other texture, whatever the dimensions of the
\* images (a texture larger than the first one included).
C30_TextureRangesDisjointInside ==
    \A n \in DOMAIN imageBindings :
        /\ BoundRange(imageBindings[n]).first >= 0
        /\ BoundRange(imageBindings[n]).last < m_imageMemory
        /\ \A other \in DOMAIN imageBindings :
               other # n =>
                   ~Overlap(BoundRange(imageBindings[n]), BoundRange(imageBindings[other]))

\* C13: with an empty image list, construction does not fault, never reads
\* an element of m_images that does not exist, and never writes a texture
\* binding of zero descriptors.
C13_ZeroTexturesWithoutFault ==
    images = <<>> =>
        /\ pc # "crashed"
        /\ \A access \in vectorAccesses : access.index < access.size
        /\ \A w \in DOMAIN texturesWrites : texturesWrites[w] > 0

\* C17: no fallible call fails with the program going on: every failure
\* reported by a call is met by an abort at that call (vkBindImageMemory in
\* createTextures, vkResetCommandBuffer and vkBeginCommandBuffer in render
\* included).
C17_NoFailureGoesUnchecked == uncheckedFailures = {}

\* The functions that upload through a staging buffer.
UploadFunctions == BufferUploadFunctions \cup {"createTextures:images"}

\* The life of a staging buffer: created, read by the submitted copy, the
\* copy waited for, released.
StagingProtocol ==
    <<"createStaging", "copySubmit", "copyComplete", "waitReturned", "release">>

\* C15: every staging buffer of createTextures, createVertexAndIndexBuffer
\* and updateMaterialIndexDescriptorSet is released exactly once, only after
\* its copy has been submitted and waited for, and none is alive once the
\* function that created it has returned.
C15_StagingBuffersScoped ==
    /\ \A n \in DOMAIN uploadLog :
           LET fn == uploadLog[n].fn
               k == uploadLog[n].upload
               steps == StepsOf(fn, k)
           IN  /\ fn \in UploadFunctions
               /\ Len(steps) <= Len(StagingProtocol)
               /\ \A i \in DOMAIN steps : steps[i].op = StagingProtocol[i]
               /\ (<<fn, k>> \in DOMAIN stagingBuffers) <=>
                      Len(steps) < Len(StagingProtocol)
               /\ Past(fn) => Len(steps) = Len(StagingProtocol)
    /\ \A id \in DOMAIN stagingBuffers : id[1] = pc

\* Two images, three buffers and the material info have been uploaded and
\* their six staging buffers released.
C15_Witness ==
    /\ pc = "createShaderBindingTable"
    /\ Len(images) = 2
    /\ Len(m_model.primitives) = 1
    /\ Len(SelectSeq(uploadLog, LAMBDA e : e.op = "release")) = 6
    /\ stagingBuffers = <<>>

\* The events of one acceleration structure, in the order they happened.
EventsOf(a) == SelectSeq(asLog, LAMBDA e : e.as = a)

BuildProtocol ==
    <<"sizeQuery", "storage", "create", "scratch", "build", "complete",
      "waitReturned", "destroyScratch">>

\* C5: for the BLAS and for the TLAS alike, what has happened so far is an
\* initial part of: size query, storage buffer, structure creation, scratch
\* buffer, build recorded and submitted, build complete, wait returned,
\* scratch destroyed; the storage buffer and the structure have the queried
\* structure size and the scratch buffer the queried scratch size; and once
\* the build function has returned its scratch buffer no longer exists.
C5_BuildStepsInOrder ==
    /\ \A a \in {"blas", "tlas"} :
        LET events == EventsOf(a)
        IN  /\ Len(events) <= Len(BuildProtocol)
            /\ \A i \in DOMAIN events :
                /\ events[i].op = BuildProtocol[i]
                /\ events[i].op \in {"storage", "create"} =>
                       events[i].size = DriverBuildSizes(sizeQueries[a].maxPrimitiveCounts).accelerationStructureSize
                /\ events[i].op = "scratch" =>
                       events[i].size = DriverBuildSizes(sizeQueries[a].maxPrimitiveCounts).buildScratchSize
    /\ Past("createBLAS") =>
           /\ "blasScratchBuffer" \notin DOMAIN buffers
           /\ Len(EventsOf("blas")) = Len(BuildProtocol)
    /\ Past("createTLAS") =>
           /\ "tlasScratchBuffer" \notin DOMAIN buffers
           /\ Len(EventsOf("tlas")) = Len(BuildProtocol)
    /\ (pc = "createBLAS" /\ step <= 5) => "blasScratchBuffer" \notin DOMAIN buffers
    /\ (pc = "createTLAS" /\ step <= 5) => "tlasScratchBuffer" \notin DOMAIN buffers

\* Both build functions have returned, each after all eight steps, and the
\* structure buffers remain while the scratch buffers are gone.
C5_Witness ==
    /\ pc = "updateCommonDescriptorSets"
    /\ Len(EventsOf("blas")) = 8
    /\ Len(EventsOf("tlas")) = 8
    /\ EventsOf("tlas")[8].op = "destroyScratch"
    /\ {"m_blasBuffer", "m_tlasBuffer"} \subseteq DOMAIN buffers
    /\ {"blasScratchBuffer", "tlasScratchBuffer"} \cap DOMAIN buffers = {}

\* C6: once the BLAS build is recorded, the size query and the build have
\* as many geometries as there are build ranges and triangle counts, and
\* for every geometry the triangle count given to the size query is the
\* primitiveCount of its build range.
C6_QueryCountsEqualRangeCounts ==
    gpuBuild["blas"] # "none" =>
        /\ sizeQueries["blas"].geometryCount = builds["blas"].geometryCount
        /\ builds["blas"].geometryCount = Len(builds["blas"].rangeInfos)
        /\ Len(sizeQueries["blas"].maxPrimitiveCounts) = Len(builds["blas"].rangeInfos)
        /\ \A i \in DOMAIN builds["blas"].rangeInfos :
               sizeQueries["blas"].maxPrimitiveCounts[i]
                   = builds["blas"].rangeInfos[i].primitiveCount

\* The BLAS of a model of two primitives, the second with a triangle, has
\* been built.
C6_Witness ==
    /\ gpuBuild["blas"] = "done"
    /\ Len(builds["blas"].rangeInfos) = 2
    /\ builds["blas"].rangeInfos[2].primitiveCount = 1
    /\ sizeQueries["blas"].maxPrimitiveCounts[2] = 1

\* The triangles the BLAS build ranges cover.
BlasTriangles ==
    SumSeq([i \in DOMAIN builds["blas"].rangeInfos |->
               builds["blas"].rangeInfos[i].primitiveCount])

\* The triangles of the model's primitives.
ModelTriangles ==
    SumSeq([i \in DOMAIN m_model.primitives |->
               Len(m_model.primitives[i].indices) \div 3])

\* The values the packing loop stored at the positions of the index array
\* that a build range reads: 3 * primitiveCount indices from its byte offset.
IndicesRead(range) ==
    LET first == range.primitiveOffset \div SizeofIndex
    IN  {indexStores[j].val :
            j \in {k \in DOMAIN indexStores :
                      /\ indexStores[k].pos >= first
                      /\ indexStores[k].pos < first + 3 * range.primitiveCount}}

\* C22: for every geometry of the BLAS, every packed index in the geometry's
\* index range (from its byte offset, 3 * triangleCount indices) is at most
\* the geometry's maxVertex, the range having firstVertex 0 and the geometry
\* the shared vertex buffer as its vertex data.
C22_MaxVertexBoundsPackedIndices ==
    \A i \in DOMAIN blasInputs.geometries :
        /\ blasInputs.rangeInfos[i].firstVertex = 0
        /\ blasInputs.geometries[i].vertexData = "m_vertexBuffer"
        /\ \A index \in IndicesRead(blasInputs.rangeInfos[i]) :
               index <= blasInputs.geometries[i].maxVertex

\* C7: once the TLAS build is recorded, the instance buffer holds exactly
\* one instance whose reference is the device address of the BLAS; that
\* BLAS was built with ranges covering all triangles of the model (150 for
\* primitives of 100 and 50 triangles); the TLAS size query's count and the
\* TLAS build range's primitiveCount are both 1; and the BLAS build had
\* completed.
C7_OneInstanceOfCompleteBlas ==
    gpuBuild["tlas"] # "none" =>
        /\ Len(instanceBuffer) = 1
        /\ instanceBuffer[1].accelerationStructureReference = structures["blas"].address
        /\ structures["blas"].address # 0
        /\ BlasTriangles = ModelTriangles
        /\ (m_model.primitives = ScenarioPrimitives) => BlasTriangles = 150
        /\ sizeQueries["tlas"].maxPrimitiveCounts = <<1>>
        /\ Len(builds["tlas"].rangeInfos) = 1
        /\ builds["tlas"].rangeInfos[1].primitiveCount = 1
        /\ gpuBuild["blas"] = "done"
        /\ \E i, j \in DOMAIN asLog :
               /\ i < j
               /\ asLog[i] = [as |-> "blas", op |-> "complete", size |-> 0]
               /\ asLog[j] = [as |-> "tlas", op |-> "build", size |-> 0]

\* The TLAS of the scene of 100 and 50 triangles has been built.
C7_Witness ==
    /\ gpuBuild["tlas"] = "done"
    /\ m_model.primitives = ScenarioPrimitives
    /\ BlasTriangles = 150
    /\ instanceBuffer[1].accelerationStructureReference = 4096

(***************************************************************************)
(* Raytracer::createShaderBindingTable                                     *)
(***************************************************************************)

\* Raytracer.cpp: const uint32_t c_shaderCount = 4;
c_shaderCount == 4

\* Raytracer.cpp: const uint32_t c_shaderGroupCount = 4;
c_shaderGroupCount == 4

\* Handle sizes and base alignments are powers of two, here up to
\* 2^MaxSizeLog bytes, and the buffer address is one of the first
\* MaxAddressMultiple multiples of the base alignment.
MaxSizeLog == 6
MaxAddressMultiple == 2

DeviceSizes == {2 ^ k : k \in 0 .. MaxSizeLog}

\* What vkGetPhysicalDeviceProperties2 can report: the base alignment is at
\* least the handle size.
DeviceRayTracingPipelineProperties ==
    {props \in [shaderGroupHandleSize : DeviceSizes,
                 shaderGroupBaseAlignment : DeviceSizes] :
        props.shaderGroupBaseAlignment >= props.shaderGroupHandleSize}

\* The table sized by the base alignment.
ShaderBindingTableSize_aligned(handleSize, baseAlignment) ==
    baseAlignment * c_shaderGroupCount

\* Line 1501: shaderBindingTableSize = shaderGroupHandleSize * c_shaderGroupCount
ShaderBindingTableSize(handleSize, baseAlignment) == handleSize * c_shaderGroupCount

\* The statements of createShaderBindingTable, lines 1482-1542, in order.
createShaderBindingTable_order ==
    <<"properties", "buffer", "handles", "map", "copy", "unmap", "regions">>

\* Lines 1484-1502: the device's properties are read into the locals.
SbtProperties ==
    /\ Statement("createShaderBindingTable", createShaderBindingTable_order) = "properties"
    /\ shaderGroupHandleSize' =
           physicalDeviceRayTracingPipelineProperties.shaderGroupHandleSize
    /\ shaderBindingTableSize' =
           ShaderBindingTableSize(
               physicalDeviceRayTracingPipelineProperties.shaderGroupHandleSize,
               physicalDeviceRayTracingPipelineProperties.shaderGroupBaseAlignment)
    /\ shaderGroupBaseAlignment' =
           physicalDeviceRayTracingPipelineProperties.shaderGroupBaseAlignment
    /\ Advance(createShaderBindingTable_order, "constructed")
    /\ UNCHANGED <<physicalDeviceRayTracingPipelineProperties, sbtBufferAddress,
                   shaderGroupHandlesBuffer, sbtMappedSize, sbtMemoryMapped, sbtI,
                   sbtCopies, m_rchitShaderBindingTable, m_rgenShaderBindingTable,
                   m_rmissShaderBindingTable>>
    /\ UNCHANGED <<packVars, buffers, asVarsButStep, frameVarsButPc, textureVars, uploadVars, pipelineVars>>

\* Lines 1504-1506: the buffer of shaderBindingTableSize bytes and its
\* host-visible memory.
SbtBuffer ==
    /\ Statement("createShaderBindingTable", createShaderBindingTable_order) = "buffer"
    /\ buffers' = createBuffer(buffers, "m_shaderBindingTableBuffer",
                               shaderBindingTableSize)
    /\ Advance(createShaderBindingTable_order, "constructed")
    /\ UNCHANGED sbtVars
    /\ UNCHANGED <<packVars, asVarsButStep, frameVarsButPc, textureVars, uploadVars>>

\* Lines 1508-1509: the handles of all groups are requested from m_pipeline
\* into a vector of shaderBindingTableSize bytes; VK_CHECK of the result.
SbtHandles ==
    /\ Statement("createShaderBindingTable", createShaderBindingTable_order) = "handles"
    /\ shaderGroupHandlesBuffer' = shaderBindingTableSize
    /\ sbtHandleRequests' = Append(sbtHandleRequests, m_pipeline)
    /\ \E result \in VkResults :
        IF VK_CHECK(result)
        THEN Advance(createShaderBindingTable_order, "constructed")
        ELSE pc' = "aborted" /\ step' = step
    /\ UNCHANGED <<physicalDeviceRayTracingPipelineProperties, sbtBufferAddress,
                   shaderGroupHandleSize, shaderBindingTableSize,
                   shaderGroupBaseAlignment, sbtMappedSize, sbtMemoryMapped, sbtI,
                   sbtCopies, m_rchitShaderBindingTable, m_rgenShaderBindingTable,
                   m_rmissShaderBindingTable, m_pipeline>>
    /\ UNCHANGED <<packVars, buffers, asVarsButStep, frameVarsButPc, textureVars, uploadVars>>

\* Lines 1511-1514: shaderBindingTableSize bytes from offset 0 are mapped,
\* VK_CHECK of the result; the loop starts at i = 0.
SbtMap ==
    /\ Statement("createShaderBindingTable", createShaderBindingTable_order) = "map"
    /\ \E result \in VkResults :
        IF VK_CHECK(result)
        THEN /\ sbtMappedSize' = shaderBindingTableSize
             /\ sbtMemoryMapped' = 0
             /\ sbtI' = 0
             /\ Advance(createShaderBindingTable_order, "constructed")
        ELSE /\ pc' = "aborted"
             /\ UNCHANGED <<step, sbtMappedSize, sbtMemoryMapped, sbtI>>
    /\ UNCHANGED <<physicalDeviceRayTracingPipelineProperties, sbtBufferAddress,
                   shaderGroupHandleSize, shaderBindingTableSize,
                   shaderGroupBaseAlignment, shaderGroupHandlesBuffer, sbtCopies,
                   m_rchitShaderBindingTable, m_rgenShaderBindingTable,
                   m_rmissShaderBindingTable>>
    /\ UNCHANGED <<packVars, buffers, asVarsButStep, frameVarsButPc, textureVars, uploadVars, pipelineVars>>

\* Line 1516: the memcpy of iteration i.
SbtCopy(i, dst) ==
    [src |-> i * shaderGroupHandleSize, dst |-> dst, size |-> shaderGroupHandleSize]

\* Whether the destination of a memcpy lies inside the mapped bytes.
SbtCopyInMapping(copy) == copy.dst + copy.size <= sbtMappedSize

\* Lines 1514-1518: one iteration of the loop.  A memcpy beyond the mapping
\* is undefined behaviour; here it goes unnoticed and the loop goes on.
SbtCopyGroup ==
    /\ Statement("createShaderBindingTable", createShaderBindingTable_order) = "copy"
    /\ sbtI < c_shaderGroupCount
    /\ sbtCopies' = Append(sbtCopies, SbtCopy(sbtI, sbtMemoryMapped))
    /\ sbtMemoryMapped' = sbtMemoryMapped + shaderGroupBaseAlignment
    /\ sbtI' = sbtI + 1
    /\ IF sbtI + 1 < c_shaderGroupCount
       THEN UNCHANGED <<pc, step>>
       ELSE Advance(createShaderBindingTable_order, "constructed")
    /\ UNCHANGED <<physicalDeviceRayTracingPipelineProperties, sbtBufferAddress,
                   shaderGroupHandleSize, shaderBindingTableSize,
                   shaderGroupBaseAlignment, shaderGroupHandlesBuffer, sbtMappedSize,
                   m_rchitShaderBindingTable, m_rgenShaderBindingTable,
                   m_rmissShaderBindingTable>>
    /\ UNCHANGED <<packVars, buffers, asVarsButStep, frameVarsButPc, textureVars, uploadVars, pipelineVars>>

\* Lines 1514-1518: the other outcome of a memcpy beyond the mapping: the
\* process faults.
SbtCopyGroupFault ==
    /\ Statement("createShaderBindingTable", createShaderBindingTable_order) = "copy"
    /\ sbtI < c_shaderGroupCount
    /\ ~SbtCopyInMapping(SbtCopy(sbtI, sbtMemoryMapped))
    /\ sbtCopies' = Append(sbtCopies, SbtCopy(sbtI, sbtMemoryMapped))
    /\ pc' = "crashed"
    /\ UNCHANGED <<physicalDeviceRayTracingPipelineProperties, sbtBufferAddress,
                   shaderGroupHandleSize, shaderBindingTableSize,
                   shaderGroupBaseAlignment, shaderGroupHandlesBuffer, sbtMappedSize,
                   sbtMemoryMapped, sbtI, m_rchitShaderBindingTable,
                   m_rgenShaderBindingTable, m_rmissShaderBindingTable>>
    /\ UNCHANGED <<packVars, buffers, asVars, frameVarsButPc, textureVars, uploadVars, pipelineVars>>

\* Line 1520: vkUnmapMemory.
SbtUnmap ==
    /\ Statement("createShaderBindingTable", createShaderBindingTable_order) = "unmap"
    /\ sbtMappedSize' = 0
    /\ Advance(createShaderBindingTable_order, "constructed")
    /\ UNCHANGED <<physicalDeviceRayTracingPipelineProperties, sbtBufferAddress,
                   shaderGroupHandleSize, shaderBindingTableSize,
                   shaderGroupBaseAlignment, shaderGroupHandlesBuffer, sbtMemoryMapped,
                   sbtI, sbtCopies, m_rchitShaderBindingTable,
                   m_rgenShaderBindingTable, m_rmissShaderBindingTable>>
    /\ UNCHANGED <<packVars, buffers, asVarsButStep, frameVarsButPc, textureVars, uploadVars, pipelineVars>>

\* Lines 1522-1541: the buffer's device address is fetched and the three
\* regions are set; groupSize = c_shaderCount * shaderGroupBaseAlignment.
SbtRegions ==
    /\ Statement("createShaderBindingTable", createShaderBindingTable_order) = "regions"
    /\ LET groupSize == c_shaderCount * shaderGroupBaseAlignment
       IN  /\ m_rchitShaderBindingTable' =
                  [deviceAddress |-> sbtBufferAddress + 0 * shaderGroupBaseAlignment,
                   stride        |-> shaderGroupBaseAlignment,
                   size          |-> groupSize * 1]
           /\ m_rgenShaderBindingTable' =
                  [deviceAddress |-> sbtBufferAddress + 1 * shaderGroupBaseAlignment,
                   stride        |-> groupSize,
                   size          |-> groupSize * 1]
           /\ m_rmissShaderBindingTable' =
                  [deviceAddress |-> sbtBufferAddress + 2 * shaderGroupBaseAlignment,
                   stride        |-> shaderGroupBaseAlignment,
                   size          |-> groupSize * 2]
    /\ Advance(createShaderBindingTable_order, "constructed")
    /\ UNCHANGED <<physicalDeviceRayTracingPipelineProperties, sbtBufferAddress,
                   shaderGroupHandleSize, shaderBindingTableSize,
                   shaderGroupBaseAlignment, shaderGroupHandlesBuffer, sbtMappedSize,
                   sbtMemoryMapped, sbtI, sbtCopies>>
    /\ UNCHANGED <<packVars, buffers, asVarsButStep, frameVarsButPc, textureVars, uploadVars, pipelineVars>>

\* The result of pipeline creation is taken as it is, without a check.
PipelineCreationPasses_unchecked(result) == TRUE

\* Line 1001: VK_CHECK(m_pvkCreateRayTracingPipelinesKHR(...)).
PipelineCreationPasses(result) == VK_CHECK(result)

\* Raytracer::createPipeline, lines 902-1007, as far as m_pipeline goes: the
\* driver writes the handle only when it succeeds; the constructor then
\* goes on (through calls that leave m_pipeline alone) to
\* createShaderBindingTable.
createPipeline ==
    /\ pc = "createPipeline"
    /\ \E result \in VkResults :
        /\ m_pipeline' = IF result = "VK_SUCCESS" THEN "created" ELSE m_pipeline
        /\ pc' = IF PipelineCreationPasses(result)
                 THEN "createShaderBindingTable"
                 ELSE "aborted"
    /\ UNCHANGED <<physicalDeviceRayTracingPipelineProperties, sbtBufferAddress,
                   shaderGroupHandleSize, shaderBindingTableSize,
                   shaderGroupBaseAlignment, shaderGroupHandlesBuffer, sbtMappedSize,
                   sbtMemoryMapped, sbtI, sbtCopies, m_rchitShaderBindingTable,
                   m_rgenShaderBindingTable, m_rmissShaderBindingTable,
                   sbtHandleRequests>>
    /\ UNCHANGED <<packVars, buffers, asVars, frameVarsButPc, textureVars, uploadVars>>

\* Raytracer::Raytracer at createPipeline, on some device; of the buffers
\* only the one createShaderBindingTable creates is followed.
InitSBT ==
    /\ pc = "createPipeline"
    /\ physicalDeviceRayTracingPipelineProperties \in DeviceRayTracingPipelineProperties
    /\ sbtBufferAddress \in
           {m * physicalDeviceRayTracingPipelineProperties.shaderGroupBaseAlignment :
               m \in 1 .. MaxAddressMultiple}
    /\ m_pipeline = "uninitialised"
    /\ SBTLocalsInitial
    /\ UploadInitial
    /\ TexturesUnused
    /\ PackUnused
    /\ buffers = <<>>
    /\ ASInitial
    /\ FrameUnused
    /\ ContextUnused

NextSBT ==
    \/ createPipeline
    \/ SbtProperties
    \/ SbtBuffer
    \/ SbtHandles
    \/ SbtMap
    \/ SbtCopyGroup
    \/ SbtCopyGroupFault
    \/ SbtUnmap
    \/ SbtRegions

SpecSBT == InitSBT /\ [][NextSBT]_vars

(***************************************************************************)
(* Claims about createShaderBindingTable                                   *)
(***************************************************************************)

\* C10: the shader binding table buffer has base alignment times group
\* count bytes, and the copy of every group k goes to the bytes
\* [k * alignment, k * alignment + handleSize), which lie inside the buffer
\* and inside the mapping, on every device whose base alignment is at least
\* its handle size.
C10_SbtCopiesInsideBuffer ==
    /\ "m_shaderBindingTableBuffer" \in DOMAIN buffers =>
           buffers["m_shaderBindingTableBuffer"]
               = shaderGroupBaseAlignment * c_shaderGroupCount
    /\ \A n \in DOMAIN sbtCopies :
           /\ sbtCopies[n].dst = (n - 1) * shaderGroupBaseAlignment
           /\ sbtCopies[n].size = shaderGroupHandleSize
           /\ sbtCopies[n].dst + sbtCopies[n].size <= buffers["m_shaderBindingTableBuffer"]
           /\ sbtCopies[n].dst + sbtCopies[n].size <= shaderBindingTableSize

\* Base alignment units needed to hold size bytes, times the alignment.
RoundUp(size, alignment) == ((size + alignment - 1) \div alignment) * alignment

\* C11: once the regions are set, the address of each of the three regions
\* is a multiple of the device's base alignment, and the stride of the
\* ray-generation region and of the closest-hit region, which hold one
\* handle each, is the handle size rounded up to the base alignment.
C11_RegionsAlignedOneHandleStride ==
    pc = "constructed" =>
        /\ m_rchitShaderBindingTable.deviceAddress % shaderGroupBaseAlignment = 0
        /\ m_rgenShaderBindingTable.deviceAddress % shaderGroupBaseAlignment = 0
        /\ m_rmissShaderBindingTable.deviceAddress % shaderGroupBaseAlignment = 0
        /\ m_rchitShaderBindingTable.stride
               = RoundUp(shaderGroupHandleSize, shaderGroupBaseAlignment)
        /\ m_rgenShaderBindingTable.stride
               = RoundUp(shaderGroupHandleSize, shaderGroupBaseAlignment)

\* Raytracer::createPipeline, lines 950-983: the kind of each shader group
\* of the pipeline, in group order: the closest-hit group, the
\* ray-generation group, the miss group and the shadow miss group.
shaderGroupCreateInfoList == <<"rchit", "rgen", "rmiss", "rmiss">>

\* The groups of a kind, as 0-based group indices.
GroupsOfKind(kind) ==
    {k - 1 : k \in {j \in DOMAIN shaderGroupCreateInfoList :
                        shaderGroupCreateInfoList[j] = kind}}

\* The region Raytracer::render passes to the trace-rays call for a kind
\* (line 158).
RegionOfKind(kind) ==
    IF kind = "rgen" THEN m_rgenShaderBindingTable
    ELSE IF kind = "rmiss" THEN m_rmissShaderBindingTable
    ELSE m_rchitShaderBindingTable

\* C27: once the regions are set, for each of the three regions passed to
\* the trace-rays call the size is a multiple of the stride, size / stride
\* is the number of shader groups of the region's kind (1 ray-generation,
\* 2 miss, 1 hit), the region starts at the slot of the first group of its
\* kind, and it ends inside the binding-table buffer.
C27_RegionsCoverOwnHandles ==
    pc = "constructed" =>
        \A kind \in {"rgen", "rmiss", "rchit"} :
            LET region == RegionOfKind(kind)
                offset == region.deviceAddress - sbtBufferAddress
                first  == CHOOSE k \in GroupsOfKind(kind) :
                              \A other \in GroupsOfKind(kind) : k <= other
            IN  /\ region.size % region.stride = 0
                /\ region.size \div region.stride = Cardinality(GroupsOfKind(kind))
                /\ offset = first * shaderGroupBaseAlignment
                /\ offset + region.size <= buffers["m_shaderBindingTableBuffer"]

\* C12: group handles are only ever requested from a pipeline that was
\* created: when pipeline creation fails the process aborts, and it has then
\* requested no handle.
C12_NoHandleRequestWithoutPipeline ==
    /\ \A n \in DOMAIN sbtHandleRequests : sbtHandleRequests[n] = "created"
    /\ m_pipeline # "created" =>
           /\ pc \in {"createPipeline", "aborted"}
           /\ sbtHandleRequests = <<>>

\* Pipeline creation failed and the process aborted with no handle requested.
C12_Witness ==
    /\ pc = "aborted"
    /\ m_pipeline = "uninitialised"
    /\ sbtHandleRequests = <<>>

(***************************************************************************)
(* Shutdown: main returns, Raytracer::~Raytracer, Context::~Context        *)
(***************************************************************************)

\* A resource is named by the member that holds it and, for the elements of
\* a vector member, its index (0 otherwise).
Resource(member) == <<member, 0>>

Elements(member, count) == [i \in 1 .. count |-> <<member, i - 1>>]

Range(sequence) == {sequence[i] : i \in DOMAIN sequence}

\* The buffers of the Raytracer, each with the memory allocateAndBindMemory
\* bound to it (lines 711-712, 727-728, 744-745, 1013-1014, 1023-1024,
\* 1122-1123, 1192-1193, 1246-1247, 1505-1506).
BufferMemory ==
    [m_vertexBuffer               |-> "m_vertexBufferMemory",
     m_indexBuffer                |-> "m_indexBufferMemory",
     m_primitiveIndexBuffer       |-> "m_primitiveIndexBufferMemory",
     m_commonBuffer               |-> "m_commonBufferMemory",
     m_materialIndexBuffer        |-> "m_materialIndexBufferMemory",
     m_tlasBuffer                 |-> "m_tlasMemory",
     m_blasBuffer                 |-> "m_blasMemory",
     m_blasGeometryInstanceBuffer |-> "m_blasGeometryInstanceMemory",
     m_shaderBindingTableBuffer   |-> "m_shaderBindingTableMemory"]

\* Context::Context, lines 40-51: what the constructor creates.
ContextResources ==
    {Resource(member) : member \in {"m_instance", "m_debugMessenger", "m_window",
                                    "m_surface", "m_device", "m_swapchain",
                                    "m_graphicsCommandPool", "m_computeCommandPool"}}
        \cup Range(Elements("m_imageAvailableSemaphores", c_swapchainImageCount))
        \cup Range(Elements("m_renderFinishedSemaphores", c_swapchainImageCount))
        \cup Range(Elements("m_inFlightFences", c_swapchainImageCount))

\* Raytracer::Raytracer, lines 54-83: what the constructor creates and
\* leaves behind, for a model of imageCount images.
RaytracerResources(imageCount) ==
    {Resource(member) : member \in {"m_colorImage", "m_colorImageMemory",
                                    "m_colorImageView", "m_sampler", "m_imageMemory",
                                    "m_descriptorPool", "m_commonDescriptorSetLayout",
                                    "m_materialIndexDescriptorSetLayout",
                                    "m_texturesDescriptorSetLayout", "m_pipelineLayout",
                                    "m_pipeline", "m_blas", "m_tlas"}}
        \cup {Resource(buffer) : buffer \in DOMAIN BufferMemory}
        \cup {Resource(BufferMemory[buffer]) : buffer \in DOMAIN BufferMemory}
        \cup Range(Elements("m_swapchainImageViews", c_swapchainImageCount))
        \cup Range(Elements("m_images", imageCount))
        \cup Range(Elements("m_imageViews", imageCount))

\* What a resource needs to exist for as long as it exists itself: an
\* acceleration structure the buffer it was created on (lines 1129, 1253),
\* a buffer or image the memory bound to it, an image view its image, a
\* swapchain image view the swapchain, and every child of the device the
\* device.
DependsOn(resource) ==
    LET member == resource[1]
        parents ==
            IF member = "m_tlas" THEN {Resource("m_tlasBuffer")}
            ELSE IF member = "m_blas" THEN {Resource("m_blasBuffer")}
            ELSE IF member \in DOMAIN BufferMemory THEN {Resource(BufferMemory[member])}
            ELSE IF member = "m_imageViews" THEN {<<"m_images", resource[2]>>}
            ELSE IF member = "m_images" THEN {Resource("m_imageMemory")}
            ELSE IF member = "m_colorImageView" THEN {Resource("m_colorImage")}
            ELSE IF member = "m_colorImage" THEN {Resource("m_colorImageMemory")}
            ELSE IF member = "m_swapchainImageViews" THEN {Resource("m_swapchain")}
            ELSE IF member = "m_swapchain" THEN {Resource("m_surface")}
            ELSE IF member = "m_surface" THEN {Resource("m_instance"), Resource("m_window")}
            ELSE IF member \in {"m_debugMessenger", "m_device"} THEN {Resource("m_instance")}
            ELSE {}
    IN  IF member \in {"m_instance", "m_debugMessenger", "m_window", "m_surface", "m_device"}
        THEN parents
        ELSE parents \cup {Resource("m_device")}

\* The two calls of destroyBufferAndFreeMemory(m_device, buffer, memory):
\* the buffer is destroyed, then its memory is freed.
BufferThenMemory(buffer, memory) == <<Resource(buffer), Resource(memory)>>

\* Raytracer::~Raytracer, lines 89-130: the destroy and free calls, in
\* their order.
RaytracerDestroyOrder(imageCount) ==
    BufferThenMemory("m_vertexBuffer", "m_vertexBufferMemory")
    \o BufferThenMemory("m_indexBuffer", "m_indexBufferMemory")
    \o BufferThenMemory("m_primitiveIndexBuffer", "m_primitiveIndexBufferMemory")
    \o BufferThenMemory("m_commonBuffer", "m_commonBufferMemory")
    \o BufferThenMemory("m_materialIndexBuffer", "m_materialIndexBufferMemory")
    \o BufferThenMemory("m_tlasBuffer", "m_tlasMemory")
    \o BufferThenMemory("m_blasBuffer", "m_blasMemory")
    \o BufferThenMemory("m_blasGeometryInstanceBuffer", "m_blasGeometryInstanceMemory")
    \o BufferThenMemory("m_shaderBindingTableBuffer", "m_shaderBindingTableMemory")
    \o <<Resource("m_tlas"), Resource("m_blas"),
         Resource("m_descriptorPool"), Resource("m_pipeline"), Resource("m_pipelineLayout"),
         Resource("m_texturesDescriptorSetLayout"),
         Resource("m_materialIndexDescriptorSetLayout"),
         Resource("m_commonDescriptorSetLayout"),
         Resource("m_sampler")>>
    \o Elements("m_imageViews", imageCount)
    \o Elements("m_images", imageCount)
    \o <<Resource("m_imageMemory")>>
    \o Elements("m_swapchainImageViews", c_swapchainImageCount)
    \o <<Resource("m_colorImageView"), Resource("m_colorImageMemory"),
         Resource("m_colorImage")>>

\* Context::~Context, lines 58-79: per swapchain image the fence and the
\* two semaphores, then the pools, the swapchain, the device, the surface,
\* the window, the debug messenger and the instance.
ContextDestroyOrder ==
    [k \in 1 .. (3 * c_swapchainImageCount) |->
        <<(IF (k - 1) % 3 = 0 THEN "m_inFlightFences"
           ELSE IF (k - 1) % 3 = 1 THEN "m_renderFinishedSemaphores"
           ELSE "m_imageAvailableSemaphores"),
          (k - 1) \div 3>>]
    \o <<Resource("m_computeCommandPool"), Resource("m_graphicsCommandPool"),
         Resource("m_swapchain"), Resource("m_device"), Resource("m_surface"),
         Resource("m_window"), Resource("m_debugMessenger"), Resource("m_instance")>>

\* One destroy or free call: the resource ceases to exist; the log keeps
\* whether it existed and whether the device was idle.
Destroyed(resource) ==
    /\ alive' = alive \ {resource}
    /\ destroyLog' = Append(destroyLog, [resource |-> resource,
                                        existed  |-> resource \in alive,
                                        idle     |-> queue = <<>>])

\* main.cpp lines 12-17: render has returned false, main returns and the
\* Raytracer is destructed first: vkDeviceWaitIdle (Raytracer.cpp line 87)
\* returns once the device has finished its work.
RaytracerWaitIdle ==
    /\ pc = "exit"
    /\ queue = <<>>
    /\ presents = <<>>
    /\ pc' = "~Raytracer"
    /\ step' = 1
    /\ UNCHANGED <<packVars, buffers, asVarsButStep, sbtVars, uploadVars, textureVars,
                   frameVarsButPc>>

\* Raytracer::~Raytracer, lines 89-130: the next destroy or free call.
RaytracerDestroy ==
    /\ pc = "~Raytracer"
    /\ Destroyed(RaytracerDestroyOrder(Len(m_images))[step])
    /\ IF step < Len(RaytracerDestroyOrder(Len(m_images)))
       THEN pc' = pc /\ step' = step + 1
       ELSE pc' = "~Context" /\ step' = 0
    /\ UNCHANGED <<packVars, buffers, asVarsButStep, sbtVars, uploadVars, textureVars>>
    /\ UNCHANGED <<m_frameIndex, m_imageIndex, m_inFlightFences,
                   m_imageAvailableSemaphores, m_renderFinishedSemaphores,
                   m_commandBuffers, queue, presents, frame, acquireCount,
                   lastAcquire, lastSubmit, lastPresent, failedCall,
                   capabilities, m_swapchain, camera, uniformBlock, windowVars,
                   modelVars>>

\* Context::~Context, line 56: vkDeviceWaitIdle.
ContextWaitIdle ==
    /\ pc = "~Context"
    /\ step = 0
    /\ queue = <<>>
    /\ presents = <<>>
    /\ pc' = pc
    /\ step' = 1
    /\ UNCHANGED <<packVars, buffers, asVarsButStep, sbtVars, uploadVars, textureVars,
                   frameVarsButPc>>

\* Context::~Context, lines 58-79: the next destroy call; after the last
\* one main has returned.
ContextDestroy ==
    /\ pc = "~Context"
    /\ step > 0
    /\ Destroyed(ContextDestroyOrder[step])
    /\ IF step < Len(ContextDestroyOrder)
       THEN pc' = pc /\ step' = step + 1
       ELSE pc' = "returned" /\ step' = 1
    /\ UNCHANGED <<packVars, buffers, asVarsButStep, sbtVars, uploadVars, textureVars>>
    /\ UNCHANGED <<m_frameIndex, m_imageIndex, m_inFlightFences,
                   m_imageAvailableSemaphores, m_renderFinishedSemaphores,
                   m_commandBuffers, queue, presents, frame, acquireCount,
                   lastAcquire, lastSubmit, lastPresent, failedCall,
                   capabilities, m_swapchain, camera, uniformBlock, windowVars,
                   modelVars>>

\* The submission and the present request of the first frame, for image 0.
FirstSubmission ==
    [cb      |-> CommandBufferIndex(1, 0),
     wait    |-> SubmitWaitSemaphore(1),
     signal  |-> SubmitSignalSemaphore(1),
     fence   |-> SubmitFence(1),
     uniform |-> UniformReadRange(1)]

FirstPresent == [wait |-> PresentWaitSemaphore(1), image |-> PresentImageIndex(1, 0)]

\* The frame loop as Raytracer::update leaves it when the window is closed:
\* in the first call of render (nothing submitted), or in the second one
\* with the first frame still on the queue.
QuitStates ==
    {[m_frameIndex |-> 1, m_imageIndex |-> 0,
      m_inFlightFences |-> [createFences(c_swapchainImageCount) EXCEPT ![1] = "unsignaled"],
      m_imageAvailableSemaphores |->
          [createSemaphores(c_swapchainImageCount) EXCEPT ![1] = 1],
      m_commandBuffers |-> allocateCommandBuffers(c_swapchainImageCount),
      queue |-> <<>>, presents |-> <<>>, frame |-> 0, acquireCount |-> 1,
      lastAcquire |-> [slot |-> 1, image |-> 0],
      lastSubmit |-> NoSubmit, lastPresent |-> NoPresent, uniformBlock |-> <<>>],
     [m_frameIndex |-> 2, m_imageIndex |-> 1,
      m_inFlightFences |->
          [createFences(c_swapchainImageCount) EXCEPT ![1] = "unsignaled",
                                                      ![2] = "unsignaled"],
      m_imageAvailableSemaphores |->
          [createSemaphores(c_swapchainImageCount) EXCEPT ![1] = 1, ![2] = 1],
      m_commandBuffers |->
          [allocateCommandBuffers(c_swapchainImageCount) EXCEPT ![0] = "executable"],
      queue |-> <<FirstSubmission>>, presents |-> <<FirstPresent>>, frame |-> 1,
      acquireCount |-> 2,
      lastAcquire |-> [slot |-> 2, image |-> 1],
      lastSubmit |-> FirstSubmission, lastPresent |-> FirstPresent,
      uniformBlock |-> UniformBufferInfo(SetupCamera)]}

\* main has left its loop; the Context and the Raytracer, for a model of
\* some number of images, exist.
InitShutdown ==
    /\ pc = "exit"
    /\ \E quit \in QuitStates :
        /\ m_frameIndex = quit.m_frameIndex
        /\ m_imageIndex = quit.m_imageIndex
        /\ m_inFlightFences = quit.m_inFlightFences
        /\ m_imageAvailableSemaphores = quit.m_imageAvailableSemaphores
        /\ m_commandBuffers = quit.m_commandBuffers
        /\ queue = quit.queue
        /\ presents = quit.presents
        /\ frame = quit.frame
        /\ acquireCount = quit.acquireCount
        /\ lastAcquire = quit.lastAcquire
        /\ lastSubmit = quit.lastSubmit
        /\ lastPresent = quit.lastPresent
        /\ uniformBlock = quit.uniformBlock
    /\ m_renderFinishedSemaphores = createSemaphores(c_swapchainImageCount)
    /\ failedCall = "none"
    /\ capabilities = <<>>
    /\ m_swapchain = "created"
    /\ camera = SetupCamera
    /\ \E imageCount \in 0 .. MaxImages :
        /\ images = [i \in 1 .. imageCount |-> Image(1, 1)]
        /\ m_images = [i \in 1 .. imageCount |-> "created"]
        /\ m_imageViews = [i \in 1 .. imageCount |-> "created"]
        /\ m_imageMemory = TexelSize * imageCount
        /\ imageBindings = OneSizeBindings(imageCount)
        /\ textureI = imageCount
        /\ alive = ContextResources \cup RaytracerResources(imageCount)
    /\ vectorAccesses = {}
    /\ uncheckedFailures = {}
    /\ texturesLayoutCount = -1
    /\ texturesWrites = <<>>
    /\ destroyLog = <<>>
    /\ m_shouldQuit \in BOOLEAN
    /\ windowShouldClose \in BOOLEAN
    /\ ~Context_update(windowShouldClose, m_shouldQuit)
    /\ ModelUnused
    /\ PackUnused
    /\ buffers = <<>>
    /\ ASInitial
    /\ SBTUnused
    /\ UploadInitial

NextShutdown ==
    \/ GPUComplete
    \/ PresentExecute
    \/ RaytracerWaitIdle
    \/ RaytracerDestroy
    \/ ContextWaitIdle
    \/ ContextDestroy

SpecShutdown == InitShutdown /\ [][NextShutdown]_vars

\* C19: every resource the constructors created is destroyed exactly once,
\* with the device idle, and never while a resource that depends on it
\* still exists (an acceleration structure goes before its buffer, an image
\* before its memory, every Raytracer resource before the device); when
\* main has returned nothing is left.
C19_DestroyedOnceInReverseOrder ==
    /\ \A resource \in alive : DependsOn(resource) \subseteq alive
    /\ \A n \in DOMAIN destroyLog : destroyLog[n].existed /\ destroyLog[n].idle
    /\ pc = "returned" => alive = {}

(***************************************************************************)
(* Quitting: the frame loop, then shutdown                                 *)
(***************************************************************************)

\* main.cpp lines 7-11: the Context and the Raytracer, for a model of one
\* image, have been constructed and main enters its loop.
InitQuit ==
    /\ pc = "acquire"
    /\ m_frameIndex = InitialFrameIndex
    /\ m_imageIndex = 0
    /\ m_inFlightFences = createFences(Cardinality(SwapchainImages))
    /\ m_imageAvailableSemaphores = createSemaphores(Cardinality(SwapchainImages))
    /\ m_renderFinishedSemaphores = createSemaphores(Cardinality(SwapchainImages))
    /\ m_commandBuffers = allocateCommandBuffers(Cardinality(SwapchainImages))
    /\ queue = <<>>
    /\ presents = <<>>
    /\ frame = 0
    /\ acquireCount = 0
    /\ lastAcquire = NoAcquire
    /\ lastSubmit = NoSubmit
    /\ lastPresent = NoPresent
    /\ failedCall = "none"
    /\ capabilities = <<>>
    /\ m_swapchain = "created"
    /\ camera = SetupCamera
    /\ uniformBlock = <<>>
    /\ images = <<Image(1, 1)>>
    /\ m_images = <<"created">>
    /\ m_imageViews = <<"created">>
    /\ m_imageMemory = TexelSize
    /\ imageBindings = OneSizeBindings(1)
    /\ textureI = 1
    /\ alive = ContextResources \cup RaytracerResources(1)
    /\ vectorAccesses = {}
    /\ uncheckedFailures = {}
    /\ texturesLayoutCount = -1
    /\ texturesWrites = <<>>
    /\ destroyLog = <<>>
    /\ m_shouldQuit = FALSE
    /\ windowShouldClose = FALSE
    /\ ModelUnused
    /\ PackUnused
    /\ buffers = <<>>
    /\ ASInitial
    /\ SBTUnused
    /\ UploadInitial

\* main.cpp lines 14-17: what the CPU thread does once render has returned
\* false: the two destructors.
Shutdown ==
    \/ RaytracerWaitIdle
    \/ RaytracerDestroy
    \/ ContextWaitIdle
    \/ ContextDestroy

NextQuit ==
    \/ NextFrame
    \/ Shutdown

\* The CPU thread keeps running once render has returned false, the queue
\* keeps executing what was submitted to it, and the presentation engine
\* keeps executing present requests.
SpecQuit ==
    /\ InitQuit
    /\ [][NextQuit]_vars
    /\ WF_vars(Shutdown)
    /\ WF_vars(GPUComplete)
    /\ WF_vars(PresentExecute)

\* An Escape key release has been delivered or a close of the window has
\* been requested.
QuitRequested == m_shouldQuit \/ windowShouldClose

\* C25: once an Escape key release has been delivered or a window close has
\* been requested, the render call that polled it returns false: the CPU
\* thread is past the loop, nothing is recorded, submitted or presented any
\* more, and shutdown runs to completion: both device-idle waits return and
\* both destructors finish, leaving no resource behind.
C25_QuitRunsToCompletion ==
    /\ [](QuitRequested => pc \in {"exit", "~Raytracer", "~Context", "returned"})
    /\ [][QuitRequested =>
              /\ Len(queue') <= Len(queue)
              /\ Len(presents') <= Len(presents)
              /\ UNCHANGED <<m_commandBuffers, uniformBlock, frame, acquireCount>>]_vars
    /\ QuitRequested ~> (pc = "returned" /\ alive = {})

\* C25 witness: main has returned after an Escape key release polled in the
\* third call of render, with two frames submitted before it.
C25_Witness ==
    /\ pc = "returned"
    /\ m_shouldQuit
    /\ ~windowShouldClose
    /\ frame = 2
    /\ acquireCount = 3
    /\ alive = {}

(***************************************************************************)
(* The glTF file and Model::Model (Model.cpp)                              *)
(***************************************************************************)

\* Bound of the small files the checks enumerate.
MaxMaterials == 2

\* tinygltf::Material as far as loadMaterials reads it: the texture indices
\* of the base colour, metallic-roughness and normal textures, -1 where the
\* material has none.
GltfMaterial(baseColor, metallicRoughness, normal) ==
    [baseColorTexture         |-> baseColor,
     metallicRoughnessTexture |-> metallicRoughness,
     normalTexture            |-> normal]

\* Materials of a file with some number of textures: with all three
\* textures, without base colour, with base colour only, with none.  The
\* textures present are the last texture of the file.
SmallGltfMaterials(textureCount) ==
    IF textureCount = 0
    THEN {GltfMaterial(-1, -1, -1)}
    ELSE LET t == textureCount - 1
         IN  {GltfMaterial(t, t, t), GltfMaterial(-1, t, t), GltfMaterial(t, -1, -1),
              GltfMaterial(-1, -1, -1)}

\* tinygltf::Model as far as Model::Model reads it: the primitives of mesh 0
\* with their material index (-1: none), the materials, the textures with
\* the index of their source image, and the images.  The file has one
\* texture per image, the first texture showing the last image.
GltfModel(imageCount, materials, primitiveMaterials) ==
    [primitives |-> [k \in DOMAIN primitiveMaterials |->
                        [material |-> primitiveMaterials[k],
                         vertices |-> 1,
                         indices  |-> <<0, 0, 0>>]],
     materials  |-> materials,
     textures   |-> [t \in 1 .. imageCount |-> [source |-> imageCount - t]],
     images     |-> [i \in 1 .. imageCount |-> Image(1, 1)]]

SmallGltfModel(model) ==
    \E imageCount \in 0 .. MaxImages :
        \E materials \in UNION {[1 .. n -> SmallGltfMaterials(imageCount)] :
                                   n \in 0 .. MaxMaterials} :
            \E primitiveMaterials \in
                    UNION {[1 .. n -> (-1) .. (Len(materials) - 1)] :
                              n \in 0 .. MaxPrimitives} :
                model = GltfModel(imageCount, materials, primitiveMaterials)

\* Model.cpp lines 39-46: the source image of a texture, -1 for no texture.
getSourceOrMinusOne(textures, index) ==
    IF index < 0 THEN -1 ELSE textures[index + 1].source

\* Model.cpp lines 48-118: indices and vertices are read from the file's
\* buffers; no statement assigns Primitive::material, which keeps its
\* default member initialiser (Model.hpp line 42: = -1).
loadPrimitives(model) ==
    [i \in DOMAIN model.primitives |->
        [vertices |-> model.primitives[i].vertices,
         indices  |-> model.primitives[i].indices,
         material |-> -1]]

\* Model.cpp lines 120-134.
loadMaterials(model) ==
    [i \in DOMAIN model.materials |->
        [baseColor |->
             getSourceOrMinusOne(model.textures, model.materials[i].baseColorTexture),
         metallicRoughnessImage |->
             getSourceOrMinusOne(model.textures,
                                 model.materials[i].metallicRoughnessTexture),
         normalImage |->
             getSourceOrMinusOne(model.textures, model.materials[i].normalTexture)]]

\* Model.cpp lines 136-149.
loadImages(model) == model.images

\* Model::Model, lines 178-180; the two size members are never assigned.
LoadModel(model) ==
    [primitives              |-> loadPrimitives(model),
     materials               |-> loadMaterials(model),
     images                  |-> loadImages(model),
     vertexBufferSizeInBytes |-> 0,
     indexBufferSizeInBytes  |-> 0]

(***************************************************************************)
(* Raytracer::createDescriptorPool and the three descriptor set layouts    *)
(***************************************************************************)

DescriptorTypes ==
    {"UNIFORM_BUFFER", "COMBINED_IMAGE_SAMPLER", "ACCELERATION_STRUCTURE_KHR",
     "STORAGE_IMAGE", "STORAGE_BUFFER"}

\* Lines 761-771: poolSizes[0..4].
PoolSizes(swapchainImageCount, materialCount) ==
    [type \in DescriptorTypes |->
        IF type = "UNIFORM_BUFFER" THEN swapchainImageCount
        ELSE IF type = "COMBINED_IMAGE_SAMPLER" THEN materialCount
        ELSE 1]

\* Line 773: maxSets = ui32Size(m_model->materials) + 64.
MaxSets(materialCount) == materialCount + 64

\* Lines 787-811: the five bindings of the common layout.
CommonBindings ==
    <<[descriptorType |-> "ACCELERATION_STRUCTURE_KHR", descriptorCount |-> 1],
      [descriptorType |-> "UNIFORM_BUFFER", descriptorCount |-> 1],
      [descriptorType |-> "STORAGE_BUFFER", descriptorCount |-> 1],
      [descriptorType |-> "STORAGE_BUFFER", descriptorCount |-> 1],
      [descriptorType |-> "STORAGE_IMAGE", descriptorCount |-> 1]>>

\* Lines 837-842: the one binding of the material index layout.
MaterialIndexBindings ==
    <<[descriptorType |-> "STORAGE_BUFFER", descriptorCount |-> 1]>>

\* Lines 759-783: VK_CHECK(vkCreateDescriptorPool).
createDescriptorPool ==
    /\ pc = "createDescriptorPool"
    /\ \E result \in VkResults :
        IF VK_CHECK(result)
        THEN /\ m_descriptorPool' =
                    [poolSizes |-> PoolSizes(c_swapchainImageCount,
                                             Len(m_model.materials)),
                     maxSets   |-> MaxSets(Len(m_model.materials))]
             /\ pc' = "createCommonDescriptorSetLayoutAndAllocate"
        ELSE /\ m_descriptorPool' = m_descriptorPool
             /\ pc' = "aborted"
    /\ UNCHANGED <<initVars, gltfModel, descriptorSets, materialInfo, imageBindings,
                   windowVars>>
    /\ UNCHANGED <<m_frameIndex, m_imageIndex, m_inFlightFences,
                   m_imageAvailableSemaphores, m_renderFinishedSemaphores,
                   m_commandBuffers, queue, presents, frame, acquireCount,
                   lastAcquire, lastSubmit, lastPresent, failedCall,
                   capabilities, m_swapchain, camera, uniformBlock, alive, destroyLog>>

\* A layout is created and one descriptor set of it is allocated from
\* m_descriptorPool, each under VK_CHECK.
AllocateDescriptorSet(position, set, bindings, next) ==
    /\ pc = position
    /\ \E layoutResult \in VkResults, allocateResult \in VkResults :
        IF VK_CHECK(layoutResult) /\ VK_CHECK(allocateResult)
        THEN /\ descriptorSets' =
                    Append(descriptorSets, [set |-> set, bindings |-> bindings])
             /\ pc' = next
        ELSE /\ descriptorSets' = descriptorSets
             /\ pc' = "aborted"
    /\ UNCHANGED <<initVars, gltfModel, m_descriptorPool, materialInfo, imageBindings,
                   windowVars>>
    /\ UNCHANGED <<m_frameIndex, m_imageIndex, m_inFlightFences,
                   m_imageAvailableSemaphores, m_renderFinishedSemaphores,
                   m_commandBuffers, queue, presents, frame, acquireCount,
                   lastAcquire, lastSubmit, lastPresent, failedCall,
                   capabilities, m_swapchain, camera, uniformBlock, alive, destroyLog>>

\* Lines 785-833.
createCommonDescriptorSetLayoutAndAllocate ==
    AllocateDescriptorSet("createCommonDescriptorSetLayoutAndAllocate",
                          "m_commonDescriptorSet", CommonBindings,
                          "createMaterialIndexDescriptorSetLayoutAndAllocate")

\* Lines 835-872.
createMaterialIndexDescriptorSetLayoutAndAllocate ==
    AllocateDescriptorSet("createMaterialIndexDescriptorSetLayoutAndAllocate",
                          "m_materialIndexDescriptorSet", MaterialIndexBindings,
                          "createTexturesDescriptorSetLayoutAndAllocate")

\* Raytracer::Raytracer up to createDescriptorPool (lines 58-66): the model
\* of some file is loaded and one texture image exists per image of it.
InitDescriptors ==
    /\ pc = "createDescriptorPool"
    /\ SmallGltfModel(gltfModel)
    /\ m_model = LoadModel(gltfModel)
    /\ images = gltfModel.images
    /\ m_images = [i \in DOMAIN gltfModel.images |-> "created"]
    /\ m_imageViews = [i \in DOMAIN gltfModel.images |-> "created"]
    /\ m_imageMemory = TexelSize * Len(gltfModel.images)
    /\ imageBindings = OneSizeBindings(Len(gltfModel.images))
    /\ textureI = Len(gltfModel.images)
    /\ vectorAccesses = {}
    /\ uncheckedFailures = {}
    /\ texturesLayoutCount = -1
    /\ texturesWrites = <<>>
    /\ m_descriptorPool = <<>>
    /\ descriptorSets = <<>>
    /\ materialInfo = <<>>
    /\ m_vertexDataSize = 0
    /\ m_indexDataSize = 0
    /\ vertexData = 0
    /\ indices = <<>>
    /\ indexStores = <<>>
    /\ vertexCopies = <<>>
    /\ packNext = 0
    /\ indexCounter = 0
    /\ indexCounterOffset = 0
    /\ vertexByteOffset = 0
    /\ indexByteOffset = 0
    /\ m_primitiveInfos = <<>>
    /\ m_triangleCount = 0
    /\ buffers = <<>>
    /\ ASInitial
    /\ SBTUnused
    /\ UploadInitial
    /\ FrameUnused
    /\ capabilities = <<>>
    /\ m_swapchain = "created"
    /\ camera = <<>>
    /\ uniformBlock = <<>>
    /\ alive = {}
    /\ destroyLog = <<>>
    /\ m_shouldQuit = FALSE
    /\ windowShouldClose = FALSE

NextDescriptors ==
    \/ createDescriptorPool
    \/ createCommonDescriptorSetLayoutAndAllocate
    \/ createMaterialIndexDescriptorSetLayoutAndAllocate
    \/ createTexturesDescriptorSetLayoutAndAllocate

SpecDescriptors == InitDescriptors /\ [][NextDescriptors]_vars

\* The descriptors of a type that the sets allocated so far hold.
DescriptorsAllocated(type) ==
    SumSeq([k \in DOMAIN descriptorSets |->
               SumSeq([b \in DOMAIN descriptorSets[k].bindings |->
                          IF descriptorSets[k].bindings[b].descriptorType = type
                          THEN descriptorSets[k].bindings[b].descriptorCount
                          ELSE 0])])

\* C26: for each descriptor type, the descriptors of that type in the sets
\* allocated from the pool (common, material index, textures) do not exceed
\* the pool size declared for the type, and the number of sets allocated
\* does not exceed maxSets.
C26_PoolCoversAllocations ==
    descriptorSets # <<>> =>
        /\ \A type \in DescriptorTypes :
               DescriptorsAllocated(type) <= m_descriptorPool.poolSizes[type]
        /\ Len(descriptorSets) <= m_descriptorPool.maxSets

(***************************************************************************)
(* Raytracer::updateMaterialIndexDescriptorSet: the material info          *)
(***************************************************************************)

\* std::max(a, b) of two int.
StdMax(a, b) == IF a < b THEN b ELSE a

\* Lines 1428-1436: the MaterialInfo written for a primitive from the
\* Model::Material read for it: the base colour as read, the normal and
\* the metallic-roughness index raised to 0 when negative.
MaterialInfo(material, indexBufferOffset) ==
    [baseColorTextureIndex         |-> material.baseColor,
     normalTextureIndex            |-> StdMax(material.normalImage, 0),
     metallicRoughnessTextureIndex |-> StdMax(material.metallicRoughnessImage, 0),
     indexBufferOffset             |-> indexBufferOffset]

\* m_model->materials[index] of std::vector::operator[], which does not
\* check its index: the indices for which the element exists.
MaterialExists(materials, index) == index >= 0 /\ index < Len(materials)

\* What a read of m_model->materials[index] outside the vector can come
\* back with when it does not fault: the three int of whatever lies there.
OutOfRangeMaterials ==
    {[baseColor |-> v, metallicRoughnessImage |-> v, normalImage |-> v] :
        v \in {-1, 0, MaxImages}}

\* Lines 1424-1433: indexBufferOffset when the loop reaches the counter-th
\* primitive (0-based): the triangles of the primitives before it.
IndexBufferOffset(counter) ==
    SumSeq([k \in 1 .. counter |-> Len(m_model.primitives[k].indices) \div 3])

\* Lines 1426-1438: one pass of the loop over m_model->primitives.  The
\* material is read at primitive.material; outside the vector the read is
\* undefined and here comes back with some values.
FillMaterialInfo ==
    /\ pc = "updateMaterialIndexDescriptorSet:materialInfo"
    /\ Len(materialInfo) < Len(m_model.primitives)
    /\ LET counter == Len(materialInfo)
           primitive == m_model.primitives[counter + 1]
       IN  \E material \in
                 IF MaterialExists(m_model.materials, primitive.material)
                 THEN {m_model.materials[primitive.material + 1]}
                 ELSE OutOfRangeMaterials :
               materialInfo' =
                   Append(materialInfo,
                          MaterialInfo(material, IndexBufferOffset(counter)))
    /\ UNCHANGED <<pc, initVars, gltfModel, m_descriptorPool, descriptorSets,
                   imageBindings, windowVars>>
    /\ UNCHANGED <<m_frameIndex, m_imageIndex, m_inFlightFences,
                   m_imageAvailableSemaphores, m_renderFinishedSemaphores,
                   m_commandBuffers, queue, presents, frame, acquireCount,
                   lastAcquire, lastSubmit, lastPresent, failedCall,
                   capabilities, m_swapchain, camera, uniformBlock, alive, destroyLog>>

\* The same pass when the read outside the vector faults.
FillMaterialInfoFault ==
    /\ pc = "updateMaterialIndexDescriptorSet:materialInfo"
    /\ Len(materialInfo) < Len(m_model.primitives)
    /\ ~MaterialExists(m_model.materials,
                       m_model.primitives[Len(materialInfo) + 1].material)
    /\ pc' = "crashed"
    /\ UNCHANGED <<initVars, modelVars, windowVars>>
    /\ UNCHANGED <<m_frameIndex, m_imageIndex, m_inFlightFences,
                   m_imageAvailableSemaphores, m_renderFinishedSemaphores,
                   m_commandBuffers, queue, presents, frame, acquireCount,
                   lastAcquire, lastSubmit, lastPresent, failedCall,
                   capabilities, m_swapchain, camera, uniformBlock, alive, destroyLog>>

\* Line 1440: the loop has ended, CHECK(counter == materialInfo.size())
\* passes and the upload follows.
MaterialInfoFilled ==
    /\ pc = "updateMaterialIndexDescriptorSet:materialInfo"
    /\ Len(materialInfo) = Len(m_model.primitives)
    /\ pc' = "updateMaterialIndexDescriptorSet:upload"
    /\ UNCHANGED <<initVars, modelVars, windowVars>>
    /\ UNCHANGED <<m_frameIndex, m_imageIndex, m_inFlightFences,
                   m_imageAvailableSemaphores, m_renderFinishedSemaphores,
                   m_commandBuffers, queue, presents, frame, acquireCount,
                   lastAcquire, lastSubmit, lastPresent, failedCall,
                   capabilities, m_swapchain, camera, uniformBlock, alive, destroyLog>>

\* Raytracer::updateMaterialIndexDescriptorSet at line 1423, for the model
\* of some file.
InitMaterial ==
    /\ pc = "updateMaterialIndexDescriptorSet:materialInfo"
    /\ SmallGltfModel(gltfModel)
    /\ m_model = LoadModel(gltfModel)
    /\ images = gltfModel.images
    /\ m_images = [i \in DOMAIN gltfModel.images |-> "created"]
    /\ m_imageViews = [i \in DOMAIN gltfModel.images |-> "created"]
    /\ m_imageMemory = TexelSize * Len(gltfModel.images)
    /\ imageBindings = OneSizeBindings(Len(gltfModel.images))
    /\ textureI = Len(gltfModel.images)
    /\ vectorAccesses = {}
    /\ uncheckedFailures = {}
    /\ texturesLayoutCount = Len(gltfModel.images)
    /\ texturesWrites = <<>>
    /\ m_descriptorPool = <<>>
    /\ descriptorSets = <<>>
    /\ materialInfo = <<>>
    /\ m_vertexDataSize = 0
    /\ m_indexDataSize = 0
    /\ vertexData = 0
    /\ indices = <<>>
    /\ indexStores = <<>>
    /\ vertexCopies = <<>>
    /\ packNext = 0
    /\ indexCounter = 0
    /\ indexCounterOffset = 0
    /\ vertexByteOffset = 0
    /\ indexByteOffset = 0
    /\ m_primitiveInfos = <<>>
    /\ m_triangleCount = 0
    /\ buffers = <<>>
    /\ ASInitial
    /\ SBTUnused
    /\ UploadInitial
    /\ FrameUnused
    /\ capabilities = <<>>
    /\ m_swapchain = "created"
    /\ camera = <<>>
    /\ uniformBlock = <<>>
    /\ alive = {}
    /\ destroyLog = <<>>
    /\ m_shouldQuit = FALSE
    /\ windowShouldClose = FALSE

NextMaterial ==
    \/ FillMaterialInfo
    \/ FillMaterialInfoFault
    \/ MaterialInfoFilled

SpecMaterial == InitMaterial /\ [][NextMaterial]_vars

\* C28: whenever updateMaterialIndexDescriptorSet has read the material of
\* a primitive, the primitive's material index was a valid index into the
\* model's material list, 0 <= material < number of materials, and the
\* read did not fault.
C28_MaterialIndexValid ==
    /\ pc # "crashed"
    /\ \A k \in DOMAIN materialInfo :
           /\ m_model.primitives[k].material >= 0
           /\ m_model.primitives[k].material < Len(m_model.materials)

\* The valid indices into the texture array.
TextureIndices == 0 .. (Len(m_images) - 1)

\* C29: for every primitive that refers to an existing material in the
\* file, the three texture indices written to its MaterialInfo (base
\* colour, normal, metallic-roughness) are valid indices into the texture
\* array, 0 <= index < imageCount, whichever textures the material lacks.
C29_TextureIndicesValid ==
    \A k \in DOMAIN materialInfo :
        MaterialExists(gltfModel.materials, gltfModel.primitives[k].material) =>
            /\ materialInfo[k].baseColorTextureIndex \in TextureIndices
            /\ materialInfo[k].normalTextureIndex \in TextureIndices
            /\ materialInfo[k].metallicRoughnessTextureIndex \in TextureIndices

=============================================================================
